---- MODULE Spec2Model ----
(***************************************************************************)
(* Model of the AI-Learning-Platform backend (backend/users): the weakness *)
(* scorer, the topic aggregator and the recommendation composer of         *)
(* analytics.py, and the quiz flows of views.py that write the attempt log *)
(* the aggregator reads.                                                   *)
(*                                                                         *)
(* Numbers.  The code computes in binary floating point.  The model keeps  *)
(* percentages and seconds as integers in units of 1/Unit, and a rounded   *)
(* value as an integer count of its last decimal place (a weakness score   *)
(* in hundredths, a rounded accuracy in tenths).  round() returns the      *)
(* nearest such count; a value exactly halfway between two counts is       *)
(* rounded up or down depending on the representation error of the         *)
(* operands (round(0.005, 2) = 0.01 but round(0.015, 2) = 0.01), so the    *)
(* direction of a halfway case is an input of the rounding ("half").       *)
(***************************************************************************)
EXTENDS Integers, Sequences, FiniteSets, TLC

Unit == 6 * 100

Min(a, b) == IF a <= b THEN a ELSE b

Max(a, b) == IF a >= b THEN a ELSE b

\* round(v / k) for k > 0: the nearest integer, a halfway case by "half".
RoundHalf(v, k, half) ==
    LET q == v \div k
        r == v % k
    IN  IF 2 * r < k THEN q
        ELSE IF 2 * r > k THEN q + 1
        ELSE q + half

(***************************************************************************)
(* analytics.py: calculate_weakness_score                                  *)
(***************************************************************************)
TimeCap == 120

\* mutant: the time term is not capped
calculate_weakness_score_nocap(accuracy, avg_time, consistency, half) ==
    LET accuracy_weakness == 100 * Unit - accuracy
        time_weakness == avg_time
        consistency_weakness == 100 * Unit - consistency
        weakness_score == 30 * accuracy_weakness + 15 * time_weakness
                          + 12 * consistency_weakness
    IN  RoundHalf(weakness_score, 60 * Unit, half)

\* mutant: the consistency term weighs 0.3 instead of 0.2
calculate_weakness_score_weights(accuracy, avg_time, consistency, half) ==
    LET accuracy_weakness == 100 * Unit - accuracy
        time_weakness == Min(avg_time, TimeCap * Unit)
        consistency_weakness == 100 * Unit - consistency
        weakness_score == 30 * accuracy_weakness + 15 * time_weakness
                          + 18 * consistency_weakness
    IN  RoundHalf(weakness_score, 60 * Unit, half)

\* mutant: the accuracy is not inverted
calculate_weakness_score_noinvert(accuracy, avg_time, consistency, half) ==
    LET accuracy_weakness == accuracy
        time_weakness == Min(avg_time, TimeCap * Unit)
        consistency_weakness == 100 * Unit - consistency
        weakness_score == 30 * accuracy_weakness + 15 * time_weakness
                          + 12 * consistency_weakness
    IN  RoundHalf(weakness_score, 60 * Unit, half)

\* mutant: the weights of the accuracy and of the time are exchanged
calculate_weakness_score_swapped(accuracy, avg_time, consistency, half) ==
    LET accuracy_weakness == 100 * Unit - accuracy
        time_weakness == Min(avg_time, TimeCap * Unit)
        consistency_weakness == 100 * Unit - consistency
        weakness_score == 18 * accuracy_weakness + 25 * time_weakness
                          + 12 * consistency_weakness
    IN  RoundHalf(weakness_score, 60 * Unit, half)

\* accuracy, avg_time, consistency in 1/Unit; the result in hundredths.
\* accuracy_weakness and consistency_weakness are numerators over 100*Unit,
\* time_weakness over 120*Unit, weakness_score over 6000*Unit:
\*   0.5/(100*Unit) = 30/(6000*Unit), 0.3/(120*Unit) = 15/(6000*Unit),
\*   0.2/(100*Unit) = 12/(6000*Unit).
calculate_weakness_score(accuracy, avg_time, consistency, half) ==
    LET accuracy_weakness == 100 * Unit - accuracy
        time_weakness == Min(avg_time, TimeCap * Unit)
        consistency_weakness == 100 * Unit - consistency
        weakness_score == 30 * accuracy_weakness + 15 * time_weakness
                          + 12 * consistency_weakness
    IN  RoundHalf(weakness_score, 60 * Unit, half)

(***************************************************************************)
(* analytics.py: get_topic_statistics                                      *)
(*                                                                         *)
(* rows is the PracticeActivity table in creation order: attempted_at is   *)
(* set at creation (auto_now_add), so a later row is a more recent one.    *)
(***************************************************************************)
StrongBelow == 30

ModerateBelow == 60

RecentWindow == 5

DefaultConsistency == 50

StdevScale == 100 * 100

RECURSIVE SqrtSearch(_, _, _)
SqrtSearch(n, lo, hi) ==
    IF lo = hi THEN lo
    ELSE LET mid == (lo + hi + 1) \div 2
         IN  IF mid * mid <= n THEN SqrtSearch(n, mid, hi)
             ELSE SqrtSearch(n, lo, mid - 1)

\* floor of the square root of n, 0 <= n <= StdevScale^2
ISqrt(n) == SqrtSearch(n, 0, StdevScale)

RECURSIVE SumSeq(_)
SumSeq(s) == IF s = << >> THEN 0 ELSE Head(s) + SumSeq(Tail(s))

\* mutant: the population standard deviation, sqrt(ss / n)
stdev_population(flags) ==
    LET n == Len(flags)
        k == SumSeq(flags)
    IN  ISqrt((k * (n - k) * StdevScale * StdevScale) \div (n * n))

\* statistics.stdev of a list of 0/1 flags with at least 2 elements, in
\* 1/StdevScale: the SAMPLE standard deviation, sqrt(ss / (n - 1)) with
\* ss = sum (x - mean)^2 = k*(n - k)/n for k ones among n flags.
stdev(flags) ==
    LET n == Len(flags)
        k == SumSeq(flags)
    IN  ISqrt((k * (n - k) * StdevScale * StdevScale) \div (n * (n - 1)))

\* practice_data = PracticeActivity.objects.filter(user=user)
practice_data(rows, user) == SelectSeq(rows, LAMBDA r : r.user = user)

\* practice_data.filter(topic=topic_name)
topic_rows(data, topic_name) == SelectSeq(data, LAMBDA r : r.topic = topic_name)

\* mutant: the slice [:5] is missing
recent_attempts_all(trows) == [i \in 1..Len(trows) |-> trows[Len(trows) + 1 - i]]

\* order_by('-attempted_at')[:5]: the most recent rows first, at most 5
recent_attempts(trows) ==
    LET n == Min(Len(trows), RecentWindow)
    IN  [i \in 1..n |-> trows[Len(trows) + 1 - i]]

\* mutant: a single sample counts as a zero deviation
consistency_of_computed(recent_accuracies) ==
    IF Len(recent_accuracies) > 1
    THEN Max(0, 100 * Unit
                - (stdev(recent_accuracies) * 100 * Unit) \div StdevScale)
    ELSE 100 * Unit

\* lines 73-78
consistency_of(recent_accuracies) ==
    IF Len(recent_accuracies) > 1
    THEN Max(0, 100 * Unit
                - (stdev(recent_accuracies) * 100 * Unit) \div StdevScale)
    ELSE DefaultConsistency * Unit

\* mutant: a boundary score falls in the lower band (<= instead of <)
classify_le(weakness_score) ==
    IF weakness_score <= StrongBelow
    THEN [status |-> "Strong", priority |-> "Low"]
    ELSE IF weakness_score <= ModerateBelow
    THEN [status |-> "Moderate", priority |-> "Medium"]
    ELSE [status |-> "Weak", priority |-> "High"]

\* mutant: the Moderate band gets the priority of the Strong band
classify_priority(weakness_score) ==
    IF weakness_score < StrongBelow
    THEN [status |-> "Strong", priority |-> "Low"]
    ELSE IF weakness_score < ModerateBelow
    THEN [status |-> "Moderate", priority |-> "Low"]
    ELSE [status |-> "Weak", priority |-> "High"]

\* lines 83-95: status and priority of a weakness score (in hundredths)
classify(weakness_score) ==
    IF weakness_score < StrongBelow
    THEN [status |-> "Strong", priority |-> "Low"]
    ELSE IF weakness_score < ModerateBelow
    THEN [status |-> "Moderate", priority |-> "Medium"]
    ELSE [status |-> "Weak", priority |-> "High"]

\* round(v / k) with either direction of a halfway case
Rounds(v, k) == {RoundHalf(v, k, half) : half \in {0, 1}}

\* lines 80-108: the summaries a topic with these statistics can get, one
\* for every way the halfway cases of the roundings can go.  accuracy,
\* avg_time and consistency are reported rounded to one decimal (tenths).
summaries_of(topic_name, total, correct, accuracy, avg_time, consistency) ==
    {[topic |-> topic_name,
      total_attempts |-> total,
      correct_answers |-> correct,
      accuracy |-> a,
      avg_time |-> t,
      consistency |-> c,
      weakness_score |-> weakness_score,
      status |-> classify(weakness_score).status,
      status_emoji |-> "",
      priority |-> classify(weakness_score).priority] :
        a \in Rounds(10 * accuracy, Unit),
        t \in Rounds(10 * avg_time, Unit),
        c \in Rounds(10 * consistency, Unit),
        weakness_score \in {calculate_weakness_score(accuracy, avg_time,
                                                     consistency, half) :
                            half \in {0, 1}}}

\* Count('id', filter=Q(is_correct=True))
count_correct(trows) == Len(SelectSeq(trows, LAMBDA r : r.is_correct))

\* lines 59-78: the statistics of one topic group
topic_summaries(data, topic_name) ==
    LET trows == topic_rows(data, topic_name)
        total == Len(trows)
        correct == count_correct(trows)
        avg_time == (SumSeq([i \in 1..total |-> trows[i].time_taken]) * Unit)
                    \div total
        accuracy == IF total > 0 THEN (correct * 100 * Unit) \div total ELSE 0
        recent == recent_attempts(trows)
        recent_accuracies ==
            [i \in 1..Len(recent) |-> IF recent[i].is_correct THEN 1 ELSE 0]
        consistency == consistency_of(recent_accuracies)
    IN  summaries_of(topic_name, total, correct, accuracy, avg_time, consistency)

\* the rows of the grouped query (lines 51-55) come in an order the database
\* chooses: every order of the topic groups
RECURSIVE topic_groups(_, _)
topic_groups(data, topics) ==
    IF topics = {} THEN {<< >>}
    ELSE UNION {{<<s>> \o rest :
                    s \in topic_summaries(data, t),
                    rest \in topic_groups(data, topics \ {t})} : t \in topics}

\* list.sort(key=weakness_score, reverse=True): a stable sort, an element
\* stays behind the elements that are not smaller
RECURSIVE insert_desc(_, _)
insert_desc(sorted, x) ==
    IF sorted = << >> THEN <<x>>
    ELSE IF Head(sorted).weakness_score >= x.weakness_score
    THEN <<Head(sorted)>> \o insert_desc(Tail(sorted), x)
    ELSE <<x>> \o sorted

RECURSIVE sort_by_weakness_rec(_)
sort_by_weakness_rec(list) ==
    IF list = << >> THEN << >>
    ELSE insert_desc(sort_by_weakness_rec(SubSeq(list, 1, Len(list) - 1)),
                     list[Len(list)])

\* mutant: the list is returned in the order of the query
sort_by_weakness_unsorted(list) == list

\* line 111
sort_by_weakness(list) == sort_by_weakness_rec(list)

\* mutant: the attempts are not filtered by user
get_topic_statistics_all_users(rows, user) ==
    LET data == rows
    IN  IF data = << >> THEN {<< >>}
        ELSE {sort_by_weakness(g) :
              g \in topic_groups(data, {data[i].topic : i \in 1..Len(data)})}

\* lines 39-113: the lists get_topic_statistics(user) can return
get_topic_statistics(rows, user) ==
    LET data == practice_data(rows, user)
    IN  IF data = << >> THEN {<< >>}
        ELSE {sort_by_weakness(g) :
              g \in topic_groups(data, {data[i].topic : i \in 1..Len(data)})}

(***************************************************************************)
(* analytics.py: generate_recommendations                                  *)
(*                                                                         *)
(* A reason or a suggestion is the tuple of the fixed text and the values  *)
(* formatted into it.                                                      *)
(***************************************************************************)
LowAccuracy == 40

SlowTime == 90

\* mutant: the slowness rule is tried before the low-accuracy rule
high_recommendation_slow_first(topic) ==
    IF topic.avg_time > SlowTime * 10
    THEN [topic |-> topic.topic,
          reason |-> <<"Taking too long", topic.avg_time>>,
          suggestion |-> <<"speed-solving with a timer", topic.topic>>]
    ELSE IF topic.accuracy < LowAccuracy * 10
    THEN [topic |-> topic.topic,
          reason |-> <<"Very low accuracy", topic.accuracy>>,
          suggestion |-> <<"Start with easy questions", topic.topic>>]
    ELSE [topic |-> topic.topic,
          reason |-> <<"Inconsistent performance">>,
          suggestion |-> <<"Practice regularly", topic.topic>>]

\* lines 140-149: the recommendation of a High-priority topic
high_recommendation(topic) ==
    IF topic.accuracy < LowAccuracy * 10
    THEN [topic |-> topic.topic,
          reason |-> <<"Very low accuracy", topic.accuracy>>,
          suggestion |-> <<"Start with easy questions", topic.topic>>]
    ELSE IF topic.avg_time > SlowTime * 10
    THEN [topic |-> topic.topic,
          reason |-> <<"Taking too long", topic.avg_time>>,
          suggestion |-> <<"speed-solving with a timer", topic.topic>>]
    ELSE [topic |-> topic.topic,
          reason |-> <<"Inconsistent performance">>,
          suggestion |-> <<"Practice regularly", topic.topic>>]

\* lines 153-155
medium_recommendation(topic) ==
    [topic |-> topic.topic,
     reason |-> <<"Moderate accuracy", topic.accuracy>>,
     suggestion |-> <<"Practice medium-level questions", topic.topic>>]

\* lines 158-160
maintain_recommendation(topic) ==
    [topic |-> topic.topic,
     reason |-> <<"Strong performance", topic.accuracy>>,
     suggestion |-> <<"Maintain with occasional practice", topic.topic>>]

\* the recommendations of the topics that go to one bucket, in list order
RECURSIVE bucket(_, _)
bucket(topic_analysis, name) ==
    IF topic_analysis = << >> THEN << >>
    ELSE LET topic == Head(topic_analysis)
             rest == bucket(Tail(topic_analysis), name)
         IN  IF topic.priority = "High"
             THEN IF name = "high_priority"
                  THEN <<high_recommendation(topic)>> \o rest ELSE rest
             ELSE IF topic.priority = "Medium"
             THEN IF name = "medium_priority"
                  THEN <<medium_recommendation(topic)>> \o rest ELSE rest
             ELSE IF name = "maintain"
                  THEN <<maintain_recommendation(topic)>> \o rest ELSE rest

\* mutant: the empty analysis is not treated apart
generate_recommendations_noempty(topic_analysis) ==
    LET high_priority == bucket(topic_analysis, "high_priority")
        medium_priority == bucket(topic_analysis, "medium_priority")
        maintain == bucket(topic_analysis, "maintain")
    IN  [high_priority |-> high_priority,
         medium_priority |-> medium_priority,
         maintain |-> maintain,
         message |->
             IF high_priority # << >>
             THEN <<"Focus on weak area(s) to improve quickly!",
                    Len(high_priority)>>
             ELSE IF medium_priority # << >>
             THEN <<"Good progress! Work on moderate areas to reach excellence.">>
             ELSE <<"Excellent! You're strong in all areas. Keep practicing!">>]

\* mutant: the message counts the topics of the whole analysis
generate_recommendations_count_all(topic_analysis) ==
    IF topic_analysis = << >>
    THEN [high_priority |-> << >>,
          medium_priority |-> << >>,
          maintain |-> << >>,
          message |-> <<"Start practicing to get personalized recommendations!">>]
    ELSE LET high_priority == bucket(topic_analysis, "high_priority")
             medium_priority == bucket(topic_analysis, "medium_priority")
             maintain == bucket(topic_analysis, "maintain")
         IN  [high_priority |-> high_priority,
              medium_priority |-> medium_priority,
              maintain |-> maintain,
              message |->
                  IF high_priority # << >>
                  THEN <<"Focus on weak area(s) to improve quickly!",
                         Len(topic_analysis)>>
                  ELSE IF medium_priority # << >>
                  THEN <<"Good progress! Work on moderate areas to reach excellence.">>
                  ELSE <<"Excellent! You're strong in all areas. Keep practicing!">>]

\* lines 116-176
generate_recommendations(topic_analysis) ==
    IF topic_analysis = << >>
    THEN [high_priority |-> << >>,
          medium_priority |-> << >>,
          maintain |-> << >>,
          message |-> <<"Start practicing to get personalized recommendations!">>]
    ELSE LET high_priority == bucket(topic_analysis, "high_priority")
             medium_priority == bucket(topic_analysis, "medium_priority")
             maintain == bucket(topic_analysis, "maintain")
         IN  [high_priority |-> high_priority,
              medium_priority |-> medium_priority,
              maintain |-> maintain,
              message |->
                  IF high_priority # << >>
                  THEN <<"Focus on weak area(s) to improve quickly!",
                         Len(high_priority)>>
                  ELSE IF medium_priority # << >>
                  THEN <<"Good progress! Work on moderate areas to reach excellence.">>
                  ELSE <<"Excellent! You're strong in all areas. Keep practicing!">>]

(***************************************************************************)
(* questions.py: the static question bank.  A question is its id, topic,   *)
(* difficulty, number of options and correct option index; the texts are   *)
(* left out.  The model runs on the first BankSize questions of the bank.  *)
(***************************************************************************)
BankSize == 2

QUIZ_QUESTIONS ==
    << [id |-> 1, topic |-> "Logical Reasoning", difficulty |-> "Easy",
        options |-> 4, correct_answer |-> 1],
       [id |-> 2, topic |-> "Quantitative Aptitude", difficulty |-> "Easy",
        options |-> 4, correct_answer |-> 1],
       [id |-> 3, topic |-> "Data Interpretation", difficulty |-> "Easy",
        options |-> 4, correct_answer |-> 0],
       [id |-> 4, topic |-> "Logical Reasoning", difficulty |-> "Easy",
        options |-> 4, correct_answer |-> 0],
       [id |-> 5, topic |-> "Quantitative Aptitude", difficulty |-> "Easy",
        options |-> 4, correct_answer |-> 1],
       [id |-> 6, topic |-> "Pattern Recognition", difficulty |-> "Easy",
        options |-> 4, correct_answer |-> 1],
       [id |-> 7, topic |-> "Data Interpretation", difficulty |-> "Easy",
        options |-> 4, correct_answer |-> 2],
       [id |-> 8, topic |-> "Logical Reasoning", difficulty |-> "Easy",
        options |-> 4, correct_answer |-> 2],
       [id |-> 9, topic |-> "Quantitative Aptitude", difficulty |-> "Easy",
        options |-> 4, correct_answer |-> 1],
       [id |-> 10, topic |-> "Pattern Recognition", difficulty |-> "Easy",
        options |-> 4, correct_answer |-> 1] >>

get_all_questions == SubSeq(QUIZ_QUESTIONS, 1, Min(BankSize, Len(QUIZ_QUESTIONS)))

\* random.shuffle: every order of the list
RECURSIVE shuffles(_)
shuffles(list) ==
    IF list = << >> THEN {<< >>}
    ELSE UNION {{<<list[i]>> \o rest :
                    rest \in shuffles([j \in 1..(Len(list) - 1) |->
                                          IF j < i THEN list[j] ELSE list[j + 1]])}
                : i \in 1..Len(list)}

(***************************************************************************)
(* request.session: a dictionary, a function from its keys to their values *)
(***************************************************************************)
EmptySession == [k \in {} |-> 0]

Has(s, k) == k \in DOMAIN s

Get(s, k, default) == IF k \in DOMAIN s THEN s[k] ELSE default

Put(s, k, v) == [x \in DOMAIN s \cup {k} |-> IF x = k THEN v ELSE s[x]]

Pop(s, k) == [x \in DOMAIN s \ {k} |-> s[x]]

(***************************************************************************)
(* ai_generator.py                                                         *)
(*                                                                         *)
(* An item of a parsed provider response is [kind, keys, options,          *)
(* correct_answer]: kind is the JSON type of the item, keys says whether   *)
(* the four required keys are in it, options is the length of its options  *)
(* list (-1: not a list), correct_answer its answer index (-1: not an int).*)
(***************************************************************************)
\* None and a raised exception, as values that compare with question lists
NoneValue == <<[none |-> TRUE]>>

Raised == <<[raised |-> TRUE]>>

DefaultModels == <<"llama-3.3-70b-versatile", "llama-3.1-8b-instant">>

\* str.lower() on the topic names of the model
Lower(topic) ==
    CASE topic = "Logical Reasoning" -> "logical reasoning"
      [] topic = "Quantitative Aptitude" -> "quantitative aptitude"
      [] topic = "Data Interpretation" -> "data interpretation"
      [] topic = "Pattern Recognition" -> "pattern recognition"
      [] OTHER -> topic

\* mutant: the configured model is put before both defaults
_get_groq_models_duplicating(configured) ==
    IF configured # ""
    THEN <<configured>> \o DefaultModels
    ELSE DefaultModels

\* lines 19-27: configured is settings.GROQ_MODEL, "" when unset
_get_groq_models(configured) ==
    IF configured # ""
    THEN <<configured>> \o SelectSeq(DefaultModels, LAMBDA m : m # configured)
    ELSE DefaultModels

\* mutant: no whole-bank questions when no question matches the topic
_get_static_fallback_questions_matching(topic, difficulty, num_questions) ==
    LET questions == SelectSeq(get_all_questions,
                               LAMBDA q : Lower(q.topic) = Lower(topic))
        taken == SubSeq(questions, 1, Min(num_questions, Len(questions)))
    IN  [index \in 1..Len(taken) |->
            [id |-> <<"fallback", topic, index>>,
             topic |-> taken[index].topic,
             difficulty |-> taken[index].difficulty,
             options |-> taken[index].options,
             correct_answer |-> taken[index].correct_answer,
             source |-> <<"Static Fallback">>]]

\* lines 43-63
_get_static_fallback_questions(topic, difficulty, num_questions) ==
    LET matching == SelectSeq(get_all_questions,
                              LAMBDA q : Lower(q.topic) = Lower(topic))
        questions == IF matching = << >> THEN get_all_questions ELSE matching
        taken == SubSeq(questions, 1, Min(num_questions, Len(questions)))
    IN  [index \in 1..Len(taken) |->
            [id |-> <<"fallback", topic, index>>,
             topic |-> taken[index].topic,
             difficulty |-> taken[index].difficulty,
             options |-> taken[index].options,
             correct_answer |-> taken[index].correct_answer,
             source |-> <<"Static Fallback">>]]

\* mutant: the number of options is not tested
item_check_any_options(q) ==
    IF q.kind \in {"number", "null"} THEN "raise"
    ELSE IF ~q.keys THEN "skip"
    ELSE IF q.kind # "object" THEN "raise"
    ELSE IF q.correct_answer \notin {0, 1, 2, 3} THEN "skip"
    ELSE "ok"

\* lines 206-219 on one item: "ok", "skip", or "raise" when the test itself
\* fails (key in q on a number or null; q.get on a string or a list that
\* contains the four key names)
item_check(q) ==
    IF q.kind \in {"number", "null"} THEN "raise"
    ELSE IF ~q.keys THEN "skip"
    ELSE IF q.kind # "object" THEN "raise"
    ELSE IF q.options # 4 THEN "skip"
    ELSE IF q.correct_answer \notin {0, 1, 2, 3} THEN "skip"
    ELSE "ok"

\* lines 204-230: the formatted questions of a parsed response, Raised when
\* an item makes the loop raise
RECURSIVE format_from(_, _, _, _, _)
format_from(items, i, topic, difficulty, model_name) ==
    IF i > Len(items) THEN << >>
    ELSE LET rest == format_from(items, i + 1, topic, difficulty, model_name)
             chk == item_check(items[i])
         IN  IF chk = "raise" \/ rest = Raised THEN Raised
             ELSE IF chk = "skip" THEN rest
             ELSE << [id |-> <<"ai", topic, i>>,
                      topic |-> topic,
                      difficulty |-> difficulty,
                      options |-> items[i].options,
                      correct_answer |-> items[i].correct_answer,
                      source |-> <<"Groq AI", model_name>>] >> \o rest

format_questions(items, topic, difficulty, model_name, num_questions) ==
    format_from(SubSeq(items, 1, Min(num_questions, Len(items))), 1,
                topic, difficulty, model_name)

\* lines 120-253: what generate_questions can return with the provider
\* answering each call with an error, an unparsable text or one of the
\* responses: the questions of the first model/attempt that yields a valid
\* one, else the static fallback or Raised.  settings is [GROQ_API_KEY,
\* GROQ_MODEL]; without a key there is no client.
generate_questions(settings, responses, topic, difficulty, num_questions, allow_fallback) ==
    LET failed == IF allow_fallback
                  THEN {_get_static_fallback_questions(topic, difficulty,
                                                       num_questions)}
                  ELSE {Raised}
        models == _get_groq_models(settings.GROQ_MODEL)
        formatted == {format_questions(r, topic, difficulty, models[m],
                                       num_questions) :
                      r \in responses, m \in 1..Len(models)}
    IN  IF ~settings.GROQ_API_KEY THEN failed
        ELSE failed \cup {f \in formatted : f # Raised /\ f # << >>}

EasyBelow == 40

MediumBelow == 70

\* mutant: the last of the weak topics is taken, not the first
generate_adaptive_questions_last(settings, responses, rows, user, num_questions, allow_fallback) ==
    UNION {
        IF topic_stats = << >>
        THEN generate_questions(settings, responses, "Logical Reasoning",
                                "Easy", num_questions, allow_fallback)
        ELSE LET weak_topics ==
                     SelectSeq(topic_stats,
                               LAMBDA t : t.status \in {"Weak", "Moderate"})
             IN  IF weak_topics = << >>
                 THEN generate_questions(settings, responses,
                                         topic_stats[1].topic, "Medium",
                                         num_questions, allow_fallback)
                 ELSE LET weakest_topic == weak_topics[Len(weak_topics)]
                          accuracy == weakest_topic.accuracy
                          difficulty ==
                              IF accuracy < EasyBelow * 10 THEN "Easy"
                              ELSE IF accuracy < MediumBelow * 10 THEN "Medium"
                              ELSE "Hard"
                      IN  generate_questions(settings, responses,
                                             weakest_topic.topic, difficulty,
                                             num_questions, allow_fallback)
        : topic_stats \in get_topic_statistics(rows, user)}

\* lines 256-299
generate_adaptive_questions(settings, responses, rows, user, num_questions, allow_fallback) ==
    UNION {
        IF topic_stats = << >>
        THEN generate_questions(settings, responses, "Logical Reasoning",
                                "Easy", num_questions, allow_fallback)
        ELSE LET weak_topics ==
                     SelectSeq(topic_stats,
                               LAMBDA t : t.status \in {"Weak", "Moderate"})
             IN  IF weak_topics = << >>
                 THEN generate_questions(settings, responses,
                                         topic_stats[1].topic, "Medium",
                                         num_questions, allow_fallback)
                 ELSE LET weakest_topic == weak_topics[1]
                          accuracy == weakest_topic.accuracy
                          difficulty ==
                              IF accuracy < EasyBelow * 10 THEN "Easy"
                              ELSE IF accuracy < MediumBelow * 10 THEN "Medium"
                              ELSE "Hard"
                      IN  generate_questions(settings, responses,
                                             weakest_topic.topic, difficulty,
                                             num_questions, allow_fallback)
        : topic_stats \in get_topic_statistics(rows, user)}

(***************************************************************************)
(* State                                                                   *)
(***************************************************************************)
VARIABLES
    practice,       \* the PracticeActivity table, rows in creation order
    quiz_sessions,  \* the QuizSession table, rows in creation order
    session,        \* request.session of each user's browser session
    response,       \* the response to the last request
    settings,       \* GROQ_API_KEY (set or not) and GROQ_MODEL
    call,           \* arguments of a call of a function on its own
    ret,            \* <<its return value>>, << >> before the call returns
    auth_user,      \* the User table: its rows and the last id given out
    browser,        \* request.session of the browser that registers and logs in
    outbox,         \* the mails sent, in order, each by its recipient
    now,            \* timezone.now(), in minutes
    inflight        \* the answer POSTs that have read the session, not yet written it

auth_vars == <<auth_user, browser, outbox, now>>

vars == <<practice, quiz_sessions, session, response, settings, call, ret,
          auth_vars, inflight>>

web_vars == <<practice, quiz_sessions, session, response, settings, auth_vars,
             inflight>>

Users == {"u1", "u2"}

\* the users who send requests
Clients == {"u1"}

MaxAttempts == 2

\* a posted form field: <<n>> is a text that int() reads as n, << >> one
\* that int() rejects
PostedOptions == {<<0>>, <<1>>}

PostedTimes == {<<-240>>, <<60>>}

PostedIds == {<<1>>}

\* the forms with one field that int() rejects
BadForms ==
    {[selected_option |-> << >>, time_taken |-> <<60>>, question_id |-> <<1>>],
     [selected_option |-> <<1>>, time_taken |-> << >>, question_id |-> <<1>>],
     [selected_option |-> <<1>>, time_taken |-> <<60>>, question_id |-> << >>]}

Forms ==
    [selected_option : PostedOptions, time_taken : PostedTimes,
     question_id : PostedIds]
    \cup BadForms

\* ?topic= of the adaptive quiz, "" when absent
TopicParams == {"", "Logical Reasoning"}

\* the parsed responses the provider gives
OkItem == [kind |-> "object", keys |-> TRUE, options |-> 4, correct_answer |-> 1]

BadItem == [kind |-> "object", keys |-> FALSE, options |-> 4, correct_answer |-> 1]

OkItem0 == [kind |-> "object", keys |-> TRUE, options |-> 4, correct_answer |-> 0]

Responses == {<<OkItem0, OkItem>>}

NoCall == [accuracy |-> 0, avg_time |-> 0, consistency |-> 0, half |-> 0]

NoResponse == [view |-> "none"]

\* no account, an empty browser session, no mail
NoAuth ==
    /\ auth_user = [rows |-> {}, last_id |-> 0]
    /\ browser = EmptySession
    /\ outbox = << >>
    /\ now = 0

Init ==
    /\ practice = << >>
    /\ quiz_sessions = << >>
    /\ session = [u \in Users |-> EmptySession]
    /\ response = NoResponse
    /\ settings = [GROQ_API_KEY |-> TRUE, GROQ_MODEL |-> ""]
    /\ call = NoCall
    /\ ret = << >>
    /\ NoAuth
    /\ inflight = << >>

(***************************************************************************)
(* views.py: quiz, quiz_summary                                            *)
(***************************************************************************)
\* an unhandled exception: status 500, and the session middleware does not
\* save the session of a 500 response
ServerError(view, user) ==
    /\ response' = [view |-> view, user |-> user, kind |-> "error"]
    /\ UNCHANGED <<practice, quiz_sessions, session>>

\* mutant: the posted text is compared without int(), and a text never
\* equals an integer
is_correct_answer_text(selected_option, question) == FALSE

\* lines 425 and 661: int(selected_option) == question['correct_answer']
is_correct_answer(selected_option, question) ==
    selected_option = question.correct_answer

\* mutant: the quiz counts as complete one question early
quiz_completes_early(user, method, new, form, db_ok) ==
    LET s0 == session[user]
        fresh == ~Has(s0, "quiz_started") \/ new
    IN  \E shuffled \in (IF fresh THEN shuffles(get_all_questions) ELSE {<< >>}) :
        LET s1 == IF fresh
                  THEN [quiz_started |-> TRUE, current_question |-> 1,
                        correct_answers |-> 0, answers |-> << >>,
                        session_questions |-> shuffled] @@ s0
                  ELSE s0
            current_q_num == Get(s1, "current_question", 1)
            stored == Get(s1, "session_questions", << >>)
            all_questions == IF stored = << >> THEN get_all_questions ELSE stored
            total_questions == Len(all_questions)
            question == all_questions[current_q_num]
            is_correct == is_correct_answer(form.selected_option[1], question)
            answer_data == [question_id |-> form.question_id[1],
                            topic |-> question.topic,
                            selected_option |-> form.selected_option[1],
                            correct_answer |-> question.correct_answer,
                            is_correct |-> is_correct,
                            time_taken |-> form.time_taken[1]]
            s2 == [answers |-> Append(Get(s1, "answers", << >>), answer_data),
                   correct_answers |->
                       IF is_correct THEN Get(s1, "correct_answers", 0) + 1
                       ELSE Get(s1, "correct_answers", 0),
                   current_question |-> current_q_num + 1] @@ s1
            context == [current_question_num |-> current_q_num,
                        total_questions |-> total_questions,
                        submitted |-> method = "POST",
                        is_correct |-> method = "POST" /\ is_correct]
        IN  IF current_q_num >= total_questions
            THEN /\ session' = [session EXCEPT ![user] = s1]
                 /\ response' = [view |-> "quiz", user |-> user,
                                 kind |-> "redirect", to |-> "quiz_summary"]
                 /\ UNCHANGED <<practice, quiz_sessions>>
            ELSE IF method = "GET"
            THEN /\ session' = [session EXCEPT ![user] = s1]
                 /\ response' = [view |-> "quiz", user |-> user,
                                 kind |-> "render", context |-> context]
                 /\ UNCHANGED <<practice, quiz_sessions>>
            ELSE IF \/ form.selected_option = << >>
                    \/ form.question_id = << >>
                    \/ form.time_taken = << >>
                    \/ ~db_ok
            THEN ServerError("quiz", user)
            ELSE /\ Len(practice) < MaxAttempts
                 /\ practice' = Append(practice,
                        [user |-> user,
                         question_id |-> form.question_id[1],
                         topic |-> question.topic,
                         difficulty |-> question.difficulty,
                         selected_option |-> form.selected_option[1],
                         correct_answer |-> question.correct_answer,
                         is_correct |-> is_correct,
                         time_taken |-> form.time_taken[1]])
                 /\ session' = [session EXCEPT ![user] = s2]
                 /\ response' = [view |-> "quiz", user |-> user,
                                 kind |-> "render", context |-> context]
                 /\ UNCHANGED quiz_sessions

\* lines 371-474, with s0 the session as the request read it
quiz_view(s0, user, method, new, form, db_ok) ==
    LET fresh == ~Has(s0, "quiz_started") \/ new
    IN  \E shuffled \in (IF fresh THEN shuffles(get_all_questions) ELSE {<< >>}) :
        LET s1 == IF fresh
                  THEN [quiz_started |-> TRUE, current_question |-> 1,
                        correct_answers |-> 0, answers |-> << >>,
                        session_questions |-> shuffled] @@ s0
                  ELSE s0
            current_q_num == Get(s1, "current_question", 1)
            stored == Get(s1, "session_questions", << >>)
            all_questions == IF stored = << >> THEN get_all_questions ELSE stored
            total_questions == Len(all_questions)
            question == all_questions[current_q_num]
            is_correct == is_correct_answer(form.selected_option[1], question)
            answer_data == [question_id |-> form.question_id[1],
                            topic |-> question.topic,
                            selected_option |-> form.selected_option[1],
                            correct_answer |-> question.correct_answer,
                            is_correct |-> is_correct,
                            time_taken |-> form.time_taken[1]]
            s2 == [answers |-> Append(Get(s1, "answers", << >>), answer_data),
                   correct_answers |->
                       IF is_correct THEN Get(s1, "correct_answers", 0) + 1
                       ELSE Get(s1, "correct_answers", 0),
                   current_question |-> current_q_num + 1] @@ s1
            context == [current_question_num |-> current_q_num,
                        total_questions |-> total_questions,
                        submitted |-> method = "POST",
                        is_correct |-> method = "POST" /\ is_correct]
        IN  IF current_q_num > total_questions
            THEN /\ session' = [session EXCEPT ![user] = s1]
                 /\ response' = [view |-> "quiz", user |-> user,
                                 kind |-> "redirect", to |-> "quiz_summary"]
                 /\ UNCHANGED <<practice, quiz_sessions>>
            ELSE IF method = "GET"
            THEN /\ session' = [session EXCEPT ![user] = s1]
                 /\ response' = [view |-> "quiz", user |-> user,
                                 kind |-> "render", context |-> context]
                 /\ UNCHANGED <<practice, quiz_sessions>>
            ELSE IF \/ form.selected_option = << >>
                    \/ form.question_id = << >>
                    \/ form.time_taken = << >>
                    \/ ~db_ok
            THEN ServerError("quiz", user)
            ELSE /\ Len(practice) < MaxAttempts
                 /\ practice' = Append(practice,
                        [user |-> user,
                         question_id |-> form.question_id[1],
                         topic |-> question.topic,
                         difficulty |-> question.difficulty,
                         selected_option |-> form.selected_option[1],
                         correct_answer |-> question.correct_answer,
                         is_correct |-> is_correct,
                         time_taken |-> form.time_taken[1]])
                 /\ session' = [session EXCEPT ![user] = s2]
                 /\ response' = [view |-> "quiz", user |-> user,
                                 kind |-> "render", context |-> context]
                 /\ UNCHANGED quiz_sessions

\* a request handled on its own reads the session as it is
quiz(user, method, new, form, db_ok) == quiz_view(session[user], user, method, new, form, db_ok)

\* mutant: the reset for the next quiz also clears the user's attempts
quiz_summary_clears(user) ==
    LET s0 == session[user]
        answers == Get(s0, "answers", << >>)
        correct_answers == Get(s0, "correct_answers", 0)
        total_questions == Len(get_all_questions)
        total_time == SumSeq([i \in 1..Len(answers) |-> answers[i].time_taken])
        accuracy == IF total_questions > 0
                    THEN (correct_answers * 100 * Unit) \div total_questions
                    ELSE 0
    IN  /\ quiz_sessions' =
               IF answers # << >>
               THEN Append(quiz_sessions,
                           [user |-> user,
                            total_questions |-> total_questions,
                            correct_answers |-> correct_answers,
                            accuracy |-> accuracy,
                            total_time |-> total_time])
               ELSE quiz_sessions
        /\ session' = [session EXCEPT ![user] =
               [quiz_started |-> FALSE, current_question |-> 1,
                correct_answers |-> 0, answers |-> << >>] @@ s0]
        /\ response' = [view |-> "quiz_summary", user |-> user,
                        kind |-> "render",
                        context |-> [correct_answers |-> correct_answers,
                                     total_questions |-> total_questions,
                                     accuracy |-> accuracy,
                                     total_time |-> total_time]]
        /\ practice' = SelectSeq(practice, LAMBDA r : r.user # user)

\* mutant: the reset for the next quiz leaves the count of correct answers
quiz_summary_keeps_count(user) ==
    LET s0 == session[user]
        answers == Get(s0, "answers", << >>)
        correct_answers == Get(s0, "correct_answers", 0)
        total_questions == Len(get_all_questions)
        total_time == SumSeq([i \in 1..Len(answers) |-> answers[i].time_taken])
        accuracy == IF total_questions > 0
                    THEN (correct_answers * 100 * Unit) \div total_questions
                    ELSE 0
    IN  /\ quiz_sessions' =
               IF answers # << >>
               THEN Append(quiz_sessions,
                           [user |-> user,
                            total_questions |-> total_questions,
                            correct_answers |-> correct_answers,
                            accuracy |-> accuracy,
                            total_time |-> total_time])
               ELSE quiz_sessions
        /\ session' = [session EXCEPT ![user] =
               [quiz_started |-> FALSE, current_question |-> 1,
                correct_answers |-> correct_answers,
                answers |-> << >>] @@ s0]
        /\ response' = [view |-> "quiz_summary", user |-> user,
                        kind |-> "render",
                        context |-> [correct_answers |-> correct_answers,
                                     total_questions |-> total_questions,
                                     accuracy |-> accuracy,
                                     total_time |-> total_time]]
        /\ UNCHANGED practice

\* lines 476-515.  accuracy is kept in 1/Unit percent.
quiz_summary(user) ==
    LET s0 == session[user]
        answers == Get(s0, "answers", << >>)
        correct_answers == Get(s0, "correct_answers", 0)
        total_questions == Len(get_all_questions)
        total_time == SumSeq([i \in 1..Len(answers) |-> answers[i].time_taken])
        accuracy == IF total_questions > 0
                    THEN (correct_answers * 100 * Unit) \div total_questions
                    ELSE 0
    IN  /\ quiz_sessions' =
               IF answers # << >>
               THEN Append(quiz_sessions,
                           [user |-> user,
                            total_questions |-> total_questions,
                            correct_answers |-> correct_answers,
                            accuracy |-> accuracy,
                            total_time |-> total_time])
               ELSE quiz_sessions
        /\ session' = [session EXCEPT ![user] =
               [quiz_started |-> FALSE, current_question |-> 1,
                correct_answers |-> 0, answers |-> << >>] @@ s0]
        /\ response' = [view |-> "quiz_summary", user |-> user,
                        kind |-> "render",
                        context |-> [correct_answers |-> correct_answers,
                                     total_questions |-> total_questions,
                                     accuracy |-> accuracy,
                                     total_time |-> total_time]]
        /\ UNCHANGED practice

(***************************************************************************)
(* views.py: weak_areas, recommendations_page                              *)
(***************************************************************************)
\* lines 520-532
weak_areas(user) ==
    /\ \E topic_analysis \in get_topic_statistics(practice, user) :
          response' = [view |-> "weak_areas", user |-> user, kind |-> "render",
                       context |->
                           [topic_analysis |-> topic_analysis,
                            recommendations |->
                                generate_recommendations(topic_analysis)]]
    /\ UNCHANGED <<practice, quiz_sessions, session>>

\* lines 540-551: the context holds the recommendations only
recommendations_page(user) ==
    /\ \E topic_analysis \in get_topic_statistics(practice, user) :
          response' = [view |-> "recommendations", user |-> user,
                       kind |-> "render",
                       context |->
                           [recommendations |->
                                generate_recommendations(topic_analysis)]]
    /\ UNCHANGED <<practice, quiz_sessions, session>>

(***************************************************************************)
(* views.py: dashboard                                                     *)
(***************************************************************************)
DashboardWeakBelow == 60

\* lines 265-351.  The context keeps the counts and the overall accuracy
\* (rounded to one decimal, in tenths); the lists drawn as charts are left
\* out.
dashboard(user) ==
    LET data == practice_data(practice, user)
        total_attempted == Len(data)
        correct_count == count_correct(data)
        accuracy == IF total_attempted > 0
                    THEN (correct_count * 100 * Unit) \div total_attempted
                    ELSE 0
        topics == {data[i].topic : i \in DOMAIN data}
        weak_topics ==
            {t \in topics :
                100 * count_correct(topic_rows(data, t))
                    < DashboardWeakBelow * Len(topic_rows(data, t))}
        sessions == SelectSeq(quiz_sessions, LAMBDA q : q.user = user)
    IN  /\ \E a \in Rounds(10 * accuracy, Unit) :
              response' = [view |-> "dashboard", user |-> user, kind |-> "render",
                           context |->
                               [total_attempted |-> total_attempted,
                                accuracy |-> a,
                                weak_area_count |-> Cardinality(weak_topics),
                                recent_sessions |->
                                    IF total_attempted > 0
                                    THEN Min(5, Len(sessions)) ELSE 0]]
        /\ UNCHANGED <<practice, quiz_sessions, session>>

(***************************************************************************)
(* views.py: adaptive_quiz, adaptive_quiz_summary                          *)
(***************************************************************************)
AdaptiveCount == 5

\* abs(hash(str(id))): an integer fixed by the text of the id
question_hash(id) == 1000 * (IF id[1] = "ai" THEN 1 ELSE 2) + id[3]

\* lines 552-699.  db_ok: the insert of the attempt succeeds.
adaptive_quiz(user, method, topic_param, new, form, db_ok) ==
    LET s0 == session[user]
        force_new == new \/ topic_param # ""
        s1 == IF ~Has(s0, "adaptive_quiz_started") \/ force_new
              THEN [adaptive_quiz_started |-> TRUE,
                    adaptive_current_question |-> 0,
                    adaptive_correct |-> 0,
                    adaptive_answers |-> << >>] @@ Pop(s0, "adaptive_questions")
              ELSE s0
        current_questions == Get(s1, "adaptive_questions", NoneValue)
        generate == current_questions = NoneValue \/ current_questions = << >>
                    \/ force_new
        generated ==
            IF ~generate THEN {current_questions}
            ELSE IF topic_param # ""
            THEN generate_questions(settings, Responses, topic_param, "Easy",
                                    AdaptiveCount, TRUE)
            ELSE generate_adaptive_questions(settings, Responses, practice,
                                             user, AdaptiveCount, TRUE)
    IN  \E questions \in generated :
        LET s2 == IF generate
                  THEN [adaptive_questions |-> questions,
                        adaptive_current_question |-> 0] @@ s1
                  ELSE s1
            current_index == Get(s2, "adaptive_current_question", 0)
            current_question == questions[current_index + 1]
            is_correct == is_correct_answer(form.selected_option[1],
                                            current_question)
            s3 == [adaptive_correct |->
                       IF is_correct THEN Get(s2, "adaptive_correct", 0) + 1
                       ELSE Get(s2, "adaptive_correct", 0),
                   adaptive_current_question |-> current_index + 1] @@ s2
            context == [current_question_num |-> current_index + 1,
                        total_questions |-> Len(questions),
                        submitted |-> method = "POST",
                        is_correct |-> method = "POST" /\ is_correct,
                        is_adaptive |-> TRUE]
        IN  IF questions = Raised \/ questions = << >>
            THEN /\ session' = [session EXCEPT ![user] = s1]
                 /\ response' = [view |-> "adaptive_quiz", user |-> user,
                                 kind |-> "render_error"]
                 /\ UNCHANGED <<practice, quiz_sessions>>
            ELSE IF current_index >= Len(questions)
            THEN /\ session' = [session EXCEPT ![user] = s2]
                 /\ response' = [view |-> "adaptive_quiz", user |-> user,
                                 kind |-> "redirect",
                                 to |-> "adaptive_quiz_summary"]
                 /\ UNCHANGED <<practice, quiz_sessions>>
            ELSE IF method = "GET"
            THEN /\ session' = [session EXCEPT ![user] = s2]
                 /\ response' = [view |-> "adaptive_quiz", user |-> user,
                                 kind |-> "render", context |-> context]
                 /\ UNCHANGED <<practice, quiz_sessions>>
            ELSE IF form.selected_option = << >> \/ form.time_taken = << >>
            THEN ServerError("adaptive_quiz", user)
            ELSE /\ db_ok => Len(practice) < MaxAttempts
                 /\ practice' =
                        IF db_ok
                        THEN Append(practice,
                               [user |-> user,
                                question_id |-> question_hash(current_question.id),
                                topic |-> current_question.topic,
                                difficulty |-> current_question.difficulty,
                                selected_option |-> form.selected_option[1],
                                correct_answer |-> current_question.correct_answer,
                                is_correct |-> is_correct,
                                time_taken |-> form.time_taken[1]])
                        ELSE practice
                 /\ session' = [session EXCEPT ![user] = s3]
                 /\ response' = [view |-> "adaptive_quiz", user |-> user,
                                 kind |-> "render", context |-> context]
                 /\ UNCHANGED quiz_sessions

\* lines 703-729: len(None) raises when the stored list is None
adaptive_quiz_summary(user) ==
    LET s0 == session[user]
        questions == Get(s0, "adaptive_questions", << >>)
        correct == Get(s0, "adaptive_correct", 0)
        total == Len(questions)
        accuracy == IF total > 0 THEN (correct * 100 * Unit) \div total ELSE 0
    IN  IF questions = NoneValue
        THEN ServerError("adaptive_quiz_summary", user)
        ELSE /\ session' = [session EXCEPT ![user] =
                    [adaptive_quiz_started |-> FALSE,
                     adaptive_questions |-> NoneValue,
                     adaptive_current_question |-> 0,
                     adaptive_correct |-> 0] @@ s0]
             /\ response' = [view |-> "adaptive_quiz_summary", user |-> user,
                             kind |-> "render",
                             context |-> [correct_answers |-> correct,
                                          total_questions |-> total,
                                          accuracy |-> accuracy,
                                          total_time |-> 0]]
             /\ UNCHANGED <<practice, quiz_sessions>>

(***************************************************************************)
(* The requests of the logged-in users, one at a time                      *)
(***************************************************************************)
NoForm == [selected_option |-> << >>, time_taken |-> << >>, question_id |-> << >>]

FormsOf(method) == IF method = "POST" THEN Forms ELSE {NoForm}

\* whether the insert of a POST succeeds
DbOf(method) == IF method = "POST" THEN BOOLEAN ELSE {TRUE}

Quiz ==
    \E user \in Clients, method \in {"GET", "POST"}, new \in BOOLEAN :
        \E form \in FormsOf(method), db_ok \in DbOf(method) :
            /\ quiz(user, method, new, form, db_ok)
            /\ UNCHANGED <<settings, call, ret, auth_vars, inflight>>

QuizSummary ==
    \E user \in Clients :
        /\ quiz_summary(user)
        /\ UNCHANGED <<settings, call, ret, auth_vars, inflight>>

AdaptiveQuiz ==
    \E user \in Clients, method \in {"GET", "POST"}, new \in BOOLEAN :
        \E topic_param \in TopicParams, form \in FormsOf(method),
           db_ok \in DbOf(method) :
            /\ adaptive_quiz(user, method, topic_param, new, form, db_ok)
            /\ UNCHANGED <<settings, call, ret, auth_vars, inflight>>

AdaptiveQuizSummary ==
    \E user \in Clients :
        /\ adaptive_quiz_summary(user)
        /\ UNCHANGED <<settings, call, ret, auth_vars, inflight>>

WeakAreas ==
    \E user \in Users :
        /\ weak_areas(user)
        /\ UNCHANGED <<settings, call, ret, auth_vars, inflight>>

RecommendationsPage ==
    \E user \in Users :
        /\ recommendations_page(user)
        /\ UNCHANGED <<settings, call, ret, auth_vars, inflight>>

Dashboard ==
    \E user \in Users :
        /\ dashboard(user)
        /\ UNCHANGED <<settings, call, ret, auth_vars, inflight>>

Next ==
    \/ Quiz
    \/ QuizSummary
    \/ AdaptiveQuiz
    \/ AdaptiveQuizSummary
    \/ WeakAreas
    \/ RecommendationsPage
    \/ Dashboard

Spec == Init /\ [][Next]_vars

(***************************************************************************)
(* The static quiz and the analysis pages                                  *)
(***************************************************************************)
NextQuiz ==
    \/ Quiz
    \/ QuizSummary
    \/ WeakAreas
    \/ RecommendationsPage

SpecQuiz == Init /\ [][NextQuiz]_vars

(***************************************************************************)
(* The two flows together.  A session holds the static and the adaptive    *)
(* quiz side by side, so these specifications keep the attempt log to      *)
(* MaxFlowRows records and post fewer forms: an answer of either option in *)
(* 60 seconds, and a form int() rejects.                                   *)
(***************************************************************************)
MaxFlowRows == 1

FlowForms ==
    {[selected_option |-> <<o>>, time_taken |-> <<60>>, question_id |-> <<1>>] :
        o \in {0, 1}}
    \cup {NoForm}

\* every request to the two views that take answers
FlowQuiz ==
    \E user \in Clients, method \in {"GET", "POST"}, new \in BOOLEAN :
        \E form \in (IF method = "POST" THEN FlowForms ELSE {NoForm}),
           db_ok \in DbOf(method) :
            /\ quiz(user, method, new, form, db_ok)
            /\ Len(practice') <= MaxFlowRows
            /\ UNCHANGED <<settings, call, ret, auth_vars, inflight>>

FlowAdaptiveQuiz ==
    \E user \in Clients, method \in {"GET", "POST"}, new \in BOOLEAN :
        \E topic_param \in TopicParams,
           form \in (IF method = "POST" THEN FlowForms ELSE {NoForm}),
           db_ok \in DbOf(method) :
            /\ adaptive_quiz(user, method, topic_param, new, form, db_ok)
            /\ Len(practice') <= MaxFlowRows
            /\ UNCHANGED <<settings, call, ret, auth_vars, inflight>>

NextAnswers ==
    \/ FlowQuiz
    \/ FlowAdaptiveQuiz

SpecAnswers == Init /\ [][NextAnswers]_vars

\* the requests of a user who follows the pages: a quiz is opened or
\* restarted with GET, an answer is posted to the quiz that is open, and
\* the inserts succeed
VisitForms == FlowForms \ {NoForm}

VisitQuiz ==
    \E user \in Clients :
        /\ \/ \E new \in BOOLEAN : quiz(user, "GET", new, NoForm, TRUE)
           \/ \E form \in VisitForms : quiz(user, "POST", FALSE, form, TRUE)
        /\ Len(practice') <= MaxFlowRows
        /\ UNCHANGED <<settings, call, ret, auth_vars, inflight>>

VisitAdaptiveQuiz ==
    \E user \in Clients :
        /\ \/ \E new \in BOOLEAN, topic_param \in TopicParams :
                 adaptive_quiz(user, "GET", topic_param, new, NoForm, TRUE)
           \/ \E form \in VisitForms :
                 adaptive_quiz(user, "POST", "", FALSE, form, TRUE)
        /\ Len(practice') <= MaxFlowRows
        /\ UNCHANGED <<settings, call, ret, auth_vars, inflight>>

VisitPages ==
    \E user \in Clients :
        /\ \/ weak_areas(user)
           \/ recommendations_page(user)
           \/ dashboard(user)
        /\ UNCHANGED <<settings, call, ret, auth_vars, inflight>>

NextVisits ==
    \/ VisitQuiz
    \/ QuizSummary
    \/ VisitAdaptiveQuiz
    \/ AdaptiveQuizSummary
    \/ VisitPages

SpecVisits == Init /\ [][NextVisits]_vars

(***************************************************************************)
(* The analysis pages over an attempt log drawn at the start: the rows of  *)
(* u1 in every topic, correctness and time, next to rows of u2             *)
(***************************************************************************)
MaxRows == 3

StatTopics == {"Logical Reasoning", "Quantitative Aptitude"}

StatTimes == {0, 116, 200}

StatRow(user, topic, selected_option, time_taken) ==
    [user |-> user, question_id |-> 1, topic |-> topic, difficulty |-> "Easy",
     selected_option |-> selected_option, correct_answer |-> 1,
     is_correct |-> selected_option = 1, time_taken |-> time_taken]

StatRows ==
    {StatRow("u1", topic, selected_option, time_taken) :
        topic \in StatTopics, selected_option \in {0, 1},
        time_taken \in StatTimes}
    \cup {StatRow("u2", topic, 0, 0) : topic \in StatTopics}

InitStats ==
    /\ practice \in UNION {[1..n -> StatRows] : n \in 0..MaxRows}
    /\ quiz_sessions = << >>
    /\ session = [u \in Users |-> EmptySession]
    /\ response = NoResponse
    /\ settings = [GROQ_API_KEY |-> TRUE, GROQ_MODEL |-> ""]
    /\ call = NoCall
    /\ ret = << >>
    /\ NoAuth
    /\ inflight = << >>

NextStats ==
    \/ WeakAreas
    \/ RecommendationsPage

SpecStats == InitStats /\ [][NextStats]_vars

(***************************************************************************)
(* The analysis page over the attempts of one user in one topic, more of   *)
(* them than the window of recent attempts holds, alone or with one        *)
(* attempt of another topic or of another user among them                  *)
(***************************************************************************)
MaxFlags == 6

FlagRows == {StatRow("u1", "Logical Reasoning", o, 60) : o \in {0, 1}}

ForeignRows ==
    {StatRow("u1", "Quantitative Aptitude", o, 60) : o \in {0, 1}}
    \cup {StatRow("u2", "Logical Reasoning", o, 60) : o \in {0, 1}}

\* the log with x put behind its first p rows
InsertAt(rows, p, x) == SubSeq(rows, 1, p) \o <<x>> \o SubSeq(rows, p + 1, Len(rows))

ConsistencyLogs ==
    LET own == UNION {[1..n -> FlagRows] : n \in 0..MaxFlags}
    IN  own \cup UNION {{InsertAt(rows, p, x) :
                             p \in 0..Len(rows), x \in ForeignRows} :
                         rows \in own}

InitConsistency ==
    /\ practice \in ConsistencyLogs
    /\ quiz_sessions = << >>
    /\ session = [u \in Users |-> EmptySession]
    /\ response = NoResponse
    /\ settings = [GROQ_API_KEY |-> TRUE, GROQ_MODEL |-> ""]
    /\ call = NoCall
    /\ ret = << >>
    /\ NoAuth
    /\ inflight = << >>

NextConsistency == WeakAreas

SpecConsistency == InitConsistency /\ [][NextConsistency]_vars

(***************************************************************************)
(* The static quiz on its own: every request of one session to quiz and    *)
(* quiz_summary, an answer of either option in 60 seconds or a form with a *)
(* field that int() rejects; the inserts succeed                           *)
(***************************************************************************)
StaticForms == (FlowForms \ {NoForm}) \cup BadForms

StaticQuiz ==
    \E user \in Clients, method \in {"GET", "POST"}, new \in BOOLEAN :
        \E form \in (IF method = "POST" THEN StaticForms ELSE {NoForm}) :
            /\ quiz(user, method, new, form, TRUE)
            /\ UNCHANGED <<settings, call, ret, auth_vars, inflight>>

NextStatic ==
    \/ StaticQuiz
    \/ QuizSummary

SpecStatic == Init /\ [][NextStatic]_vars

(***************************************************************************)
(* The runs of the two quizzes: the requests of a session that takes one   *)
(* of them (the two keep their progress under different session keys and   *)
(* share only the attempt log), an answer of option 1 in 60 seconds or a   *)
(* POST without fields                                                     *)
(***************************************************************************)
RunForms ==
    {[selected_option |-> <<1>>, time_taken |-> <<60>>, question_id |-> <<1>>],
     NoForm}

TakesStatic(user) == ~Has(session[user], "adaptive_quiz_started")

TakesAdaptive(user) == ~Has(session[user], "quiz_started")

RunQuiz ==
    \E user \in Clients, method \in {"GET", "POST"}, new \in BOOLEAN :
        \E form \in (IF method = "POST" THEN RunForms ELSE {NoForm}) :
            /\ TakesStatic(user)
            /\ quiz(user, method, new, form, TRUE)
            /\ UNCHANGED <<settings, call, ret, auth_vars, inflight>>

RunQuizSummary ==
    \E user \in Clients :
        /\ TakesStatic(user)
        /\ quiz_summary(user)
        /\ UNCHANGED <<settings, call, ret, auth_vars, inflight>>

RunAdaptiveQuiz ==
    \E user \in Clients, method \in {"GET", "POST"}, new \in BOOLEAN :
        \E topic_param \in TopicParams,
           form \in (IF method = "POST" THEN RunForms ELSE {NoForm}),
           db_ok \in DbOf(method) :
            /\ TakesAdaptive(user)
            /\ adaptive_quiz(user, method, topic_param, new, form, db_ok)
            /\ UNCHANGED <<settings, call, ret, auth_vars, inflight>>

RunAdaptiveQuizSummary ==
    \E user \in Clients :
        /\ TakesAdaptive(user)
        /\ adaptive_quiz_summary(user)
        /\ UNCHANGED <<settings, call, ret, auth_vars, inflight>>

NextRun ==
    \/ RunQuiz
    \/ RunQuizSummary
    \/ RunAdaptiveQuiz
    \/ RunAdaptiveQuizSummary

SpecRun == Init /\ [][NextRun]_vars

(***************************************************************************)
(* Answers of one session handled at the same time.  A request loads the   *)
(* session when the view first reads it and saves the whole session when   *)
(* it returns; between the two another request can load the same session.  *)
(* ReadAnswer is the load of an answer POST, WriteAnswer the rest of the    *)
(* view with the session it loaded: the insert and the save.               *)
(***************************************************************************)
MaxInflight == 2

Remove(seq, i) == SubSeq(seq, 1, i - 1) \o SubSeq(seq, i + 1, Len(seq))

OpenQuiz ==
    \E user \in Clients :
        /\ quiz(user, "GET", FALSE, NoForm, TRUE)
        /\ UNCHANGED <<settings, call, ret, auth_vars, inflight>>

ReadAnswer ==
    \E user \in Clients, form \in FlowForms \ {NoForm} :
        /\ Len(inflight) < MaxInflight
        /\ Has(session[user], "quiz_started")
        /\ inflight' = Append(inflight, [user |-> user, form |-> form,
                                         session |-> session[user]])
        /\ UNCHANGED <<practice, quiz_sessions, session, response, settings,
                       call, ret, auth_vars>>

WriteAnswer ==
    \E i \in DOMAIN inflight :
        /\ quiz_view(inflight[i].session, inflight[i].user, "POST", FALSE,
                     inflight[i].form, TRUE)
        /\ inflight' = Remove(inflight, i)
        /\ UNCHANGED <<settings, call, ret, auth_vars>>

NextConcurrent ==
    \/ OpenQuiz
    \/ ReadAnswer
    \/ WriteAnswer

SpecConcurrent == Init /\ [][NextConcurrent]_vars

(***************************************************************************)
(* The start of an adaptive quiz over a drawn attempt log                  *)
(***************************************************************************)
MaxChoiceRows == 2

ChoiceTimes == {0, 200}

ChoiceRows ==
    {StatRow("u1", topic, selected_option, time_taken) :
        topic \in StatTopics, selected_option \in {0, 1},
        time_taken \in ChoiceTimes}
    \cup {StatRow("u2", "Quantitative Aptitude", 0, 200)}

InitChoice ==
    /\ practice \in UNION {[1..n -> ChoiceRows] : n \in 0..MaxChoiceRows}
    /\ quiz_sessions = << >>
    /\ session = [u \in Users |-> EmptySession]
    /\ response = NoResponse
    /\ settings = [GROQ_API_KEY |-> TRUE, GROQ_MODEL |-> ""]
    /\ call = NoCall
    /\ ret = << >>
    /\ NoAuth
    /\ inflight = << >>

\* a GET of the adaptive quiz, with or without ?new and ?topic
AdaptiveStart ==
    \E user \in Clients, topic_param \in TopicParams, new \in BOOLEAN :
        /\ adaptive_quiz(user, "GET", topic_param, new, NoForm, TRUE)
        /\ UNCHANGED <<settings, call, ret, auth_vars, inflight>>

NextChoice == AdaptiveStart

SpecChoice == InitChoice /\ [][NextChoice]_vars

(***************************************************************************)
(* The scorer on its own: the arguments are drawn at the start             *)
(***************************************************************************)
\* argument values of the scorer, in percent and in seconds
ScoreAccuracies == {0, 35, 40, 41, 70, 99, 100}

ScoreTimes == {0, 2, 60, 90, 119, 120, 121, 500}

ScoreConsistencies == {0, 29, 50, 71, 100}

ScoreCalls ==
    [accuracy : {a * Unit : a \in ScoreAccuracies},
     avg_time : {t * Unit : t \in ScoreTimes},
     consistency : {c * Unit : c \in ScoreConsistencies},
     half : {0, 1}]

InitScore ==
    /\ practice = << >>
    /\ quiz_sessions = << >>
    /\ session = [u \in Users |-> EmptySession]
    /\ response = NoResponse
    /\ settings = [GROQ_API_KEY |-> FALSE, GROQ_MODEL |-> ""]
    /\ call \in ScoreCalls
    /\ ret = << >>
    /\ NoAuth
    /\ inflight = << >>

Score ==
    /\ ret = << >>
    /\ ret' = <<calculate_weakness_score(call.accuracy, call.avg_time,
                                         call.consistency, call.half)>>
    /\ UNCHANGED <<call, web_vars>>

NextScore == Score

SpecScore == InitScore /\ [][NextScore]_vars

(***************************************************************************)
(* The composer on its own: the analysis is drawn at the start among the   *)
(* lists get_topic_statistics can return (one summary per topic, weakest   *)
(* first) for topics with these statistics                                 *)
(***************************************************************************)
RecAccuracies == {35, 40, 90}

RecTimes == {50, 90, 95}

RecConsistencies == {20, 100}

RecSummaries ==
    UNION {summaries_of(topic, 20, (a * 20) \div 100, a * Unit, t * Unit, c * Unit) :
           topic \in StatTopics, a \in RecAccuracies, t \in RecTimes,
           c \in RecConsistencies}

RecLists ==
    {<< >>} \cup {<<x>> : x \in RecSummaries}
    \cup {list \in {<<x, y>> : x \in RecSummaries, y \in RecSummaries} :
              /\ list[1].topic # list[2].topic
              /\ list[1].weakness_score >= list[2].weakness_score}

InitRecommend ==
    /\ practice = << >>
    /\ quiz_sessions = << >>
    /\ session = [u \in Users |-> EmptySession]
    /\ response = NoResponse
    /\ settings = [GROQ_API_KEY |-> FALSE, GROQ_MODEL |-> ""]
    /\ call \in {[topic_analysis |-> list] : list \in RecLists}
    /\ ret = << >>
    /\ NoAuth
    /\ inflight = << >>

Recommend ==
    /\ ret = << >>
    /\ ret' = <<generate_recommendations(call.topic_analysis)>>
    /\ UNCHANGED <<call, web_vars>>

NextRecommend == Recommend

SpecRecommend == InitRecommend /\ [][NextRecommend]_vars

(***************************************************************************)
(* generate_questions on its own, one provider call at a time.  The        *)
(* arguments and the settings are drawn at the start; the provider answers *)
(* each call with an API error, a text that does not parse, or a JSON      *)
(* array.  call holds the arguments, the position of the loops of lines    *)
(* 169-170 (model, attempt), the number of provider calls made and the     *)
(* answer to the last one.                                                 *)
(***************************************************************************)
\* client.chat.completions.create raised (line 179)
ApiError == <<[api_error |-> TRUE]>>

\* _parse_questions_response raised json.JSONDecodeError (line 202)
ParseError == <<[parse_error |-> TRUE]>>

NoAnswer == <<[no_answer |-> TRUE]>>

ThreeOptions == [kind |-> "object", keys |-> TRUE, options |-> 3, correct_answer |-> 1]

OptionsNotList == [kind |-> "object", keys |-> TRUE, options |-> -1, correct_answer |-> 1]

AnswerFour == [kind |-> "object", keys |-> TRUE, options |-> 4, correct_answer |-> 4]

AnswerNotInt == [kind |-> "object", keys |-> TRUE, options |-> 4, correct_answer |-> -1]

StringItem == [kind |-> "string", keys |-> FALSE, options |-> -1, correct_answer |-> -1]

NumberItem == [kind |-> "number", keys |-> FALSE, options |-> -1, correct_answer |-> -1]

NullItem == [kind |-> "null", keys |-> FALSE, options |-> -1, correct_answer |-> -1]

AIOutcomes ==
    {ApiError, ParseError, << >>, <<BadItem>>, <<OkItem>>, <<OkItem0, OkItem>>,
     <<BadItem, OkItem>>, <<ThreeOptions, OkItem>>, <<OptionsNotList, OkItem>>,
     <<AnswerFour, OkItem0>>, <<AnswerNotInt, OkItem>>, <<StringItem, OkItem>>,
     <<NumberItem, OkItem>>, <<OkItem, NullItem>>}

AITopics ==
    {"Logical Reasoning", "logical reasoning", "Data Interpretation",
     "Graph Theory"}

AIDifficulties == {"Easy", "Hard"}

AICounts == {1, 2, AdaptiveCount}

AIModels == {"", "mixtral-8x7b-32768", "llama-3.1-8b-instant"}

AICalls ==
    [topic : AITopics, difficulty : AIDifficulties, num_questions : AICounts,
     allow_fallback : BOOLEAN, model : {1}, attempt : {1}, calls : {0},
     last : {NoAnswer}]

InitAI ==
    /\ practice = << >>
    /\ quiz_sessions = << >>
    /\ session = [u \in Users |-> EmptySession]
    /\ response = NoResponse
    /\ settings \in [GROQ_API_KEY : BOOLEAN, GROQ_MODEL : AIModels]
    /\ call \in AICalls
    /\ ret = << >>
    /\ NoAuth
    /\ inflight = << >>

\* lines 250-253, and 138-141 without a client
generate_failure(topic, difficulty, num_questions, allow_fallback) ==
    IF allow_fallback
    THEN _get_static_fallback_questions(topic, difficulty, num_questions)
    ELSE Raised

\* lines 133-141: no client
GenerateNoClient ==
    /\ ret = << >>
    /\ ~settings.GROQ_API_KEY
    /\ ret' = <<generate_failure(call.topic, call.difficulty,
                                 call.num_questions, call.allow_fallback)>>
    /\ UNCHANGED <<call, web_vars>>

\* mutant: three attempts for each model
GenerateAttempt_three_attempts ==
    /\ ret = << >>
    /\ settings.GROQ_API_KEY
    /\ call.model <= Len(_get_groq_models(settings.GROQ_MODEL))
    /\ \E outcome \in AIOutcomes :
          LET model_name == _get_groq_models(settings.GROQ_MODEL)[call.model]
              formatted_questions ==
                  IF outcome \in {ApiError, ParseError} THEN Raised
                  ELSE format_questions(outcome, call.topic, call.difficulty,
                                        model_name, call.num_questions)
          IN  /\ ret' = IF formatted_questions # Raised
                           /\ formatted_questions # << >>
                        THEN <<formatted_questions>>
                        ELSE << >>
              /\ call' = [call EXCEPT
                             !.model = IF call.attempt = 3 THEN @ + 1 ELSE @,
                             !.attempt = IF call.attempt = 3 THEN 1 ELSE @ + 1,
                             !.calls = @ + 1,
                             !.last = outcome]
    /\ UNCHANGED web_vars

\* lines 171-243: one pass of the loops, a provider call with its answer
GenerateAttempt ==
    /\ ret = << >>
    /\ settings.GROQ_API_KEY
    /\ call.model <= Len(_get_groq_models(settings.GROQ_MODEL))
    /\ \E outcome \in AIOutcomes :
          LET model_name == _get_groq_models(settings.GROQ_MODEL)[call.model]
              formatted_questions ==
                  IF outcome \in {ApiError, ParseError} THEN Raised
                  ELSE format_questions(outcome, call.topic, call.difficulty,
                                        model_name, call.num_questions)
          IN  /\ ret' = IF formatted_questions # Raised
                           /\ formatted_questions # << >>
                        THEN <<formatted_questions>>
                        ELSE << >>
              /\ call' = [call EXCEPT
                             !.model = IF call.attempt = 2 THEN @ + 1 ELSE @,
                             !.attempt = IF call.attempt = 2 THEN 1 ELSE 2,
                             !.calls = @ + 1,
                             !.last = outcome]
    /\ UNCHANGED web_vars

\* lines 245-253: every model and attempt failed
GenerateFailure ==
    /\ ret = << >>
    /\ settings.GROQ_API_KEY
    /\ call.model > Len(_get_groq_models(settings.GROQ_MODEL))
    /\ ret' = <<generate_failure(call.topic, call.difficulty,
                                 call.num_questions, call.allow_fallback)>>
    /\ UNCHANGED <<call, web_vars>>

NextAI ==
    \/ GenerateNoClient
    \/ GenerateAttempt
    \/ GenerateFailure

SpecAI == InitAI /\ [][NextAI]_vars

\* generate_questions runs in one thread and every provider call returns
\* or raises, so a step that can be taken is taken
SpecAIFair == SpecAI /\ WF_vars(NextAI)

(***************************************************************************)
(* views.py: registration, OTP verification, login and logout              *)
(*                                                                         *)
(* A posted text is [s, caps, pad]: its letters in lower case, whether it  *)
(* was typed with capitals, and whether blanks surround it; an absent or   *)
(* empty field is NoText.  An OTP is the sequence of its digits.  A time   *)
(* is a number of minutes; expires_at is kept as the instant it denotes    *)
(* (isoformat and parse_datetime of an aware datetime give it back).       *)
(***************************************************************************)
REGISTRATION_OTP_SESSION_KEY == "registration_otp"

\* django.contrib.auth.SESSION_KEY
SESSION_KEY == "_auth_user_id"

OtpMinutes == 10

OtpAttempts == 5

OtpLength == 6

Text(s) == [s |-> s, caps |-> FALSE, pad |-> FALSE]

NoText == Text("")

\* str.strip()
strip(t) == [t EXCEPT !.pad = FALSE]

\* str.lower()
lower(t) == [t EXCEPT !.caps = FALSE]

\* truth of a str: only '' is false
nonempty(t) == t.s # "" \/ t.pad

\* field__iexact=value
iexact(a, b) == lower(a) = lower(b)

\* f"{n:06d}"
otp_digits(n) == [i \in 1..OtpLength |-> (n \div 10 ^ (OtpLength - i)) % 10]

\* request.user: the row SESSION_KEY names when it may authenticate, << >>
\* for AnonymousUser
request_user ==
    IF Has(browser, SESSION_KEY)
    THEN LET found == {u \in auth_user.rows :
                          u.id = browser[SESSION_KEY] /\ u.is_active}
         IN  IF found = {} THEN << >> ELSE <<CHOOSE u \in found : TRUE>>
    ELSE << >>

is_authenticated == request_user # << >>

\* the passwords the project's password validators reject (tests.py 18-26
\* posts '12345678')
WeakPasswords == {Text("12345678")}

\* mutant: no validator rejects a password
validate_password_none(password) == TRUE

\* lines 153-158
validate_password(password) == password \notin WeakPasswords

\* lines 24-26
_clear_registration_otp(s) == Pop(s, REGISTRATION_OTP_SESSION_KEY)

\* lines 29-50.  n is the number random.randint draws; send_mail raises
\* when mail_ok is false, after the session has been written.
_store_and_send_registration_otp(user, n, mail_ok) ==
    /\ browser' = Put(browser, REGISTRATION_OTP_SESSION_KEY,
                      [user_id |-> user.id,
                       otp |-> otp_digits(n),
                       expires_at |-> now + OtpMinutes,
                       attempts |-> 0])
    /\ outbox' = IF mail_ok
                 THEN Append(outbox, [to |-> user.email])
                 ELSE outbox

\* a URL text as urlparse reads it: scheme, netloc, and the path split at
\* its slashes ("/quiz/" is <<"", "quiz", "">>, "quiz" is <<"quiz">>)
Url(scheme, netloc, path) == [scheme |-> scheme, netloc |-> netloc, path |-> path]

\* an absent or empty next
NoUrl == Url("", "", << >>)

\* a word without slash or dot, such as a route name
Word(name) == Url("", "", <<name>>)

\* request.get_host()
Host == "testserver"

\* urls.py: the named routes
UrlPatterns ==
    [home |-> <<"", "">>,
     login |-> <<"", "login", "">>,
     register |-> <<"", "register", "">>,
     dashboard |-> <<"", "dashboard", "">>,
     logout |-> <<"", "logout", "">>,
     practice |-> <<"", "practice", "">>,
     quiz |-> <<"", "quiz", "">>,
     quiz_summary |-> <<"", "quiz", "summary", "">>,
     weak_areas |-> <<"", "weak-areas", "">>,
     recommendations |-> <<"", "recommendations", "">>,
     adaptive_quiz |-> <<"", "adaptive-quiz", "">>,
     adaptive_quiz_summary |-> <<"", "adaptive-quiz", "summary", "">>]

\* the routes of the OTP views, which tests.py reverses by these names
OtpUrlPatterns ==
    [verify_email_otp |-> <<"", "verify-otp", "">>,
     resend_email_otp |-> <<"", "resend-otp", "">>]

Routes == UrlPatterns @@ OtpUrlPatterns

\* django.utils.http.url_has_allowed_host_and_scheme
url_has_allowed_host_and_scheme(url, allowed_hosts, require_https) ==
    LET scheme == IF url.scheme = "" /\ url.netloc # "" THEN "http"
                  ELSE url.scheme
        valid_schemes == IF require_https THEN {"https"} ELSE {"http", "https"}
    IN  /\ url # NoUrl
        /\ ~(url.netloc = "" /\ url.scheme # "")
        /\ url.netloc = "" \/ url.netloc \in allowed_hosts
        /\ scheme = "" \/ scheme \in valid_schemes

\* django.shortcuts.resolve_url of a str: a route name is reversed, a text
\* with a slash is taken as it is, any other word raises NoReverseMatch
resolve_url(to) ==
    IF to.scheme = "" /\ to.netloc = "" /\ Len(to.path) = 1
    THEN IF to.path[1] \in DOMAIN Routes
         THEN <<Url("", "", Routes[to.path[1]])>>
         ELSE Raised
    ELSE <<to>>

\* the response of an authentication view
AuthRender(view, request, template, error) ==
    response' = [view |-> view, kind |-> "render", status |-> 200,
                 request |-> request, template |-> template, error |-> error]

\* redirect(to) with the name of a route; a name no route has raises
\* NoReverseMatch
AuthRedirect(view, request, to) ==
    response' = IF resolve_url(Word(to)) # Raised
                THEN [view |-> view, kind |-> "redirect", status |-> 302,
                      request |-> request, to |-> to]
                ELSE [view |-> view, kind |-> "error", status |-> 500,
                      request |-> request]

\* require_http_methods / require_POST: HttpResponseNotAllowed
AuthNotAllowed(view, request) ==
    /\ response' = [view |-> view, kind |-> "not_allowed", status |-> 405,
                    request |-> request]
    /\ UNCHANGED <<auth_user, browser, outbox>>

\* mutant: the new user is created active
register_page_active(method, form, n, mail_ok) ==
    LET request == [method |-> method, form |-> form]
        username == strip(form.username)
        email == lower(strip(form.email))
        password == form.password
        password2 == form.password2
        user == [id |-> auth_user.last_id + 1, username |-> username,
                 email |-> email, password |-> password, is_active |-> TRUE]
    IN  IF is_authenticated
        THEN /\ AuthRedirect("register_page", request, "dashboard")
             /\ UNCHANGED <<auth_user, browser, outbox>>
        ELSE IF method # "POST"
        THEN /\ AuthRender("register_page", request, "register.html", "")
             /\ UNCHANGED <<auth_user, browser, outbox>>
        ELSE IF \/ ~nonempty(username) \/ ~nonempty(email)
                \/ ~nonempty(password) \/ ~nonempty(password2)
        THEN /\ AuthRender("register_page", request, "register.html",
                           "All fields are required")
             /\ UNCHANGED <<auth_user, browser, outbox>>
        ELSE IF password # password2
        THEN /\ AuthRender("register_page", request, "register.html",
                           "Passwords do not match")
             /\ UNCHANGED <<auth_user, browser, outbox>>
        ELSE IF \E u \in auth_user.rows : iexact(u.username, username)
        THEN /\ AuthRender("register_page", request, "register.html",
                           "Username already taken")
             /\ UNCHANGED <<auth_user, browser, outbox>>
        ELSE IF \E u \in auth_user.rows : iexact(u.email, email)
        THEN /\ AuthRender("register_page", request, "register.html",
                           "Email already registered")
             /\ UNCHANGED <<auth_user, browser, outbox>>
        ELSE IF ~validate_password(password)
        THEN /\ AuthRender("register_page", request, "register.html",
                           "password rejected")
             /\ UNCHANGED <<auth_user, browser, outbox>>
        ELSE /\ _store_and_send_registration_otp(user, n, mail_ok)
             /\ IF mail_ok
                THEN /\ auth_user' = [rows |-> auth_user.rows \cup {user},
                                      last_id |-> user.id]
                     /\ AuthRedirect("register_page", request,
                                     "verify_email_otp")
                ELSE /\ auth_user' = [auth_user EXCEPT !.last_id = user.id]
                     /\ AuthRender("register_page", request, "register.html",
                                   "Could not send OTP email. Please try again.")

\* lines 116-180.  form holds the four posted fields (NoText when absent).
register_page(method, form, n, mail_ok) ==
    LET request == [method |-> method, form |-> form]
        username == strip(form.username)
        email == lower(strip(form.email))
        password == form.password
        password2 == form.password2
        user == [id |-> auth_user.last_id + 1, username |-> username,
                 email |-> email, password |-> password, is_active |-> FALSE]
    IN  IF is_authenticated
        THEN /\ AuthRedirect("register_page", request, "dashboard")
             /\ UNCHANGED <<auth_user, browser, outbox>>
        ELSE IF method # "POST"
        THEN /\ AuthRender("register_page", request, "register.html", "")
             /\ UNCHANGED <<auth_user, browser, outbox>>
        ELSE IF \/ ~nonempty(username) \/ ~nonempty(email)
                \/ ~nonempty(password) \/ ~nonempty(password2)
        THEN /\ AuthRender("register_page", request, "register.html",
                           "All fields are required")
             /\ UNCHANGED <<auth_user, browser, outbox>>
        ELSE IF password # password2
        THEN /\ AuthRender("register_page", request, "register.html",
                           "Passwords do not match")
             /\ UNCHANGED <<auth_user, browser, outbox>>
        ELSE IF \E u \in auth_user.rows : iexact(u.username, username)
        THEN /\ AuthRender("register_page", request, "register.html",
                           "Username already taken")
             /\ UNCHANGED <<auth_user, browser, outbox>>
        ELSE IF \E u \in auth_user.rows : iexact(u.email, email)
        THEN /\ AuthRender("register_page", request, "register.html",
                           "Email already registered")
             /\ UNCHANGED <<auth_user, browser, outbox>>
        ELSE IF ~validate_password(password)
        THEN /\ AuthRender("register_page", request, "register.html",
                           "password rejected")
             /\ UNCHANGED <<auth_user, browser, outbox>>
        ELSE /\ _store_and_send_registration_otp(user, n, mail_ok)
             /\ IF mail_ok
                THEN /\ auth_user' = [rows |-> auth_user.rows \cup {user},
                                      last_id |-> user.id]
                     /\ AuthRedirect("register_page", request,
                                     "verify_email_otp")
                ELSE /\ auth_user' = [auth_user EXCEPT !.last_id = user.id]
                     /\ AuthRender("register_page", request, "register.html",
                                   "Could not send OTP email. Please try again.")

\* the value of otp_data['otp'] an entered text has to equal
OtpText(digits) == [digits |-> digits, pad |-> FALSE]

\* mutant: the attempt limit is not checked
verify_email_otp_unlimited(method, otp) ==
    LET request == [method |-> method, otp |-> otp]
        otp_data == browser[REGISTRATION_OTP_SESSION_KEY]
        found == {u \in auth_user.rows : u.id = otp_data.user_id}
        user == CHOOSE u \in found : TRUE
        entered_otp == strip(otp)
        attempts == otp_data.attempts + 1
        counted == Put(browser, REGISTRATION_OTP_SESSION_KEY,
                       [otp_data EXCEPT !.attempts = attempts])
    IN  /\ UNCHANGED outbox
        /\ IF ~Has(browser, REGISTRATION_OTP_SESSION_KEY)
           THEN /\ AuthRedirect("verify_email_otp", request, "register")
                /\ UNCHANGED <<auth_user, browser>>
           ELSE IF found = {}
           THEN /\ browser' = _clear_registration_otp(browser)
                /\ AuthRedirect("verify_email_otp", request, "register")
                /\ UNCHANGED auth_user
           ELSE IF method # "POST"
           THEN /\ AuthRender("verify_email_otp", request, "verify_otp.html", "")
                /\ UNCHANGED <<auth_user, browser>>
           ELSE IF now > otp_data.expires_at
           THEN /\ AuthRender("verify_email_otp", request, "verify_otp.html",
                              "OTP expired. Please request a new OTP.")
                /\ UNCHANGED <<auth_user, browser>>
           ELSE IF entered_otp = OtpText(otp_data.otp)
           THEN /\ auth_user' = [auth_user EXCEPT !.rows =
                       (@ \ {user}) \cup {[user EXCEPT !.is_active = TRUE]}]
                /\ browser' = _clear_registration_otp(counted)
                /\ AuthRedirect("verify_email_otp", request, "login")
           ELSE /\ browser' = counted
                /\ AuthRender("verify_email_otp", request, "verify_otp.html",
                              "Invalid OTP. Please try again.")
                /\ UNCHANGED auth_user

\* mutant: the OTP stays in the session after the verification
verify_email_otp_keeps(method, otp) ==
    LET request == [method |-> method, otp |-> otp]
        otp_data == browser[REGISTRATION_OTP_SESSION_KEY]
        found == {u \in auth_user.rows : u.id = otp_data.user_id}
        user == CHOOSE u \in found : TRUE
        entered_otp == strip(otp)
        attempts == otp_data.attempts + 1
        counted == Put(browser, REGISTRATION_OTP_SESSION_KEY,
                       [otp_data EXCEPT !.attempts = attempts])
    IN  /\ UNCHANGED outbox
        /\ IF ~Has(browser, REGISTRATION_OTP_SESSION_KEY)
           THEN /\ AuthRedirect("verify_email_otp", request, "register")
                /\ UNCHANGED <<auth_user, browser>>
           ELSE IF found = {}
           THEN /\ browser' = _clear_registration_otp(browser)
                /\ AuthRedirect("verify_email_otp", request, "register")
                /\ UNCHANGED auth_user
           ELSE IF method # "POST"
           THEN /\ AuthRender("verify_email_otp", request, "verify_otp.html", "")
                /\ UNCHANGED <<auth_user, browser>>
           ELSE IF now > otp_data.expires_at
           THEN /\ AuthRender("verify_email_otp", request, "verify_otp.html",
                              "OTP expired. Please request a new OTP.")
                /\ UNCHANGED <<auth_user, browser>>
           ELSE IF attempts > OtpAttempts
           THEN /\ browser' = counted
                /\ AuthRender("verify_email_otp", request, "verify_otp.html",
                              "Too many attempts. Please request a new OTP.")
                /\ UNCHANGED auth_user
           ELSE IF entered_otp = OtpText(otp_data.otp)
           THEN /\ auth_user' = [auth_user EXCEPT !.rows =
                       (@ \ {user}) \cup {[user EXCEPT !.is_active = TRUE]}]
                /\ browser' = counted
                /\ AuthRedirect("verify_email_otp", request, "login")
           ELSE /\ browser' = counted
                /\ AuthRender("verify_email_otp", request, "verify_otp.html",
                              "Invalid OTP. Please try again.")
                /\ UNCHANGED auth_user

\* lines 183-233.  otp is the posted text ([digits, pad]).
verify_email_otp(method, otp) ==
    LET request == [method |-> method, otp |-> otp]
        otp_data == browser[REGISTRATION_OTP_SESSION_KEY]
        found == {u \in auth_user.rows : u.id = otp_data.user_id}
        user == CHOOSE u \in found : TRUE
        entered_otp == strip(otp)
        attempts == otp_data.attempts + 1
        counted == Put(browser, REGISTRATION_OTP_SESSION_KEY,
                       [otp_data EXCEPT !.attempts = attempts])
    IN  /\ UNCHANGED outbox
        /\ IF ~Has(browser, REGISTRATION_OTP_SESSION_KEY)
           THEN /\ AuthRedirect("verify_email_otp", request, "register")
                /\ UNCHANGED <<auth_user, browser>>
           ELSE IF found = {}
           THEN /\ browser' = _clear_registration_otp(browser)
                /\ AuthRedirect("verify_email_otp", request, "register")
                /\ UNCHANGED auth_user
           ELSE IF method # "POST"
           THEN /\ AuthRender("verify_email_otp", request, "verify_otp.html", "")
                /\ UNCHANGED <<auth_user, browser>>
           ELSE IF now > otp_data.expires_at
           THEN /\ AuthRender("verify_email_otp", request, "verify_otp.html",
                              "OTP expired. Please request a new OTP.")
                /\ UNCHANGED <<auth_user, browser>>
           ELSE IF attempts > OtpAttempts
           THEN /\ browser' = counted
                /\ AuthRender("verify_email_otp", request, "verify_otp.html",
                              "Too many attempts. Please request a new OTP.")
                /\ UNCHANGED auth_user
           ELSE IF entered_otp = OtpText(otp_data.otp)
           THEN /\ auth_user' = [auth_user EXCEPT !.rows =
                       (@ \ {user}) \cup {[user EXCEPT !.is_active = TRUE]}]
                /\ browser' = _clear_registration_otp(counted)
                /\ AuthRedirect("verify_email_otp", request, "login")
           ELSE /\ browser' = counted
                /\ AuthRender("verify_email_otp", request, "verify_otp.html",
                              "Invalid OTP. Please try again.")
                /\ UNCHANGED auth_user

\* lines 236-262
resend_email_otp(method, n, mail_ok) ==
    LET request == [method |-> method]
        otp_data == browser[REGISTRATION_OTP_SESSION_KEY]
        found == {u \in auth_user.rows : u.id = otp_data.user_id}
        user == CHOOSE u \in found : TRUE
    IN  IF method # "POST"
        THEN AuthNotAllowed("resend_email_otp", request)
        ELSE IF ~Has(browser, REGISTRATION_OTP_SESSION_KEY)
        THEN /\ AuthRedirect("resend_email_otp", request, "register")
             /\ UNCHANGED <<auth_user, browser, outbox>>
        ELSE IF found = {}
        THEN /\ browser' = _clear_registration_otp(browser)
             /\ AuthRedirect("resend_email_otp", request, "register")
             /\ UNCHANGED <<auth_user, outbox>>
        ELSE IF user.is_active
        THEN /\ browser' = _clear_registration_otp(browser)
             /\ AuthRedirect("resend_email_otp", request, "login")
             /\ UNCHANGED <<auth_user, outbox>>
        ELSE /\ _store_and_send_registration_otp(user, n, mail_ok)
             /\ AuthRedirect("resend_email_otp", request, "verify_email_otp")
             /\ UNCHANGED auth_user

\* mutant: the next URL is used as it comes
get_unsafe_redirect_url(next_url, is_secure) ==
    IF next_url # NoUrl THEN next_url ELSE Word("dashboard")

\* lines 63-70
get_safe_redirect_url(next_url, is_secure) ==
    IF next_url # NoUrl
       /\ url_has_allowed_host_and_scheme(next_url, {Host}, is_secure)
    THEN next_url
    ELSE Word("dashboard")

\* mutant: the backend lets an inactive user authenticate
authenticate_inactive(username, password) ==
    LET found == {u \in auth_user.rows :
                     /\ u.username = username
                     /\ u.password = password}
    IN  IF found = {} THEN << >> ELSE <<CHOOSE u \in found : TRUE>>

\* authenticate() with the ModelBackend: the user of that exact name, when
\* the password matches and the user is active
authenticate(username, password) ==
    LET found == {u \in auth_user.rows :
                     /\ u.username = username
                     /\ u.password = password
                     /\ u.is_active}
    IN  IF found = {} THEN << >> ELSE <<CHOOSE u \in found : TRUE>>

\* redirect(to) of login_page: the Location after resolve_url
LoginRedirect(request, to) ==
    LET location == resolve_url(to)
    IN  IF location = Raised
        THEN response' = [view |-> "login_page", kind |-> "error",
                          status |-> 500, request |-> request]
        ELSE response' = [view |-> "login_page", kind |-> "redirect",
                          status |-> 302, request |-> request,
                          to |-> location[1]]

\* lines 57-113.  form holds username, password and next; query is ?next=.
login_page(method, form, query, is_secure, n, mail_ok) ==
    LET request == [method |-> method, form |-> form, query |-> query,
                    is_secure |-> is_secure]
        next_url == IF form.next # NoUrl THEN form.next ELSE query
        username == strip(form.username)
        password == form.password
        user == authenticate(username, password)
        existing == {u \in auth_user.rows : iexact(u.username, username)}
        existing_user == CHOOSE u \in existing :
                             \A v \in existing : u.id <= v.id
    IN  IF is_authenticated
        THEN /\ LoginRedirect(request, get_safe_redirect_url(next_url, is_secure))
             /\ UNCHANGED <<auth_user, browser, outbox>>
        ELSE IF method # "POST"
        THEN /\ AuthRender("login_page", request, "login.html", "")
             /\ UNCHANGED <<auth_user, browser, outbox>>
        ELSE IF ~nonempty(username) \/ ~nonempty(password)
        THEN /\ AuthRender("login_page", request, "login.html",
                           "Username and password are required.")
             /\ UNCHANGED <<auth_user, browser, outbox>>
        ELSE IF user # << >>
        THEN /\ LoginRedirect(request, get_safe_redirect_url(next_url, is_secure))
             /\ browser' = IF resolve_url(get_safe_redirect_url(next_url, is_secure)) = Raised
                           THEN browser
                           ELSE Put(browser, SESSION_KEY, user[1].id)
             /\ UNCHANGED <<auth_user, outbox>>
        ELSE IF /\ existing # {}
                /\ ~existing_user.is_active
                /\ existing_user.password = password
        THEN /\ _store_and_send_registration_otp(existing_user, n, mail_ok)
             /\ IF mail_ok
                THEN LoginRedirect(request, Word("verify_email_otp"))
                ELSE AuthRender("login_page", request, "login.html",
                                "Account is not verified and OTP could not be sent. Please try again.")
             /\ UNCHANGED auth_user
        ELSE /\ AuthRender("login_page", request, "login.html",
                           "Invalid username or password")
             /\ UNCHANGED <<auth_user, browser, outbox>>

\* mutant: require_POST is missing
logout_user_any_method(method) ==
    LET request == [method |-> method]
    IN  IF ~is_authenticated
        THEN /\ AuthRedirect("logout_user", request, "login")
             /\ UNCHANGED <<auth_user, browser, outbox>>
        ELSE /\ browser' = EmptySession
             /\ AuthRedirect("logout_user", request, "login")
             /\ UNCHANGED <<auth_user, outbox>>

\* lines 364-369: login_required, then require_POST, then logout(), which
\* flushes the session
logout_user(method) ==
    LET request == [method |-> method]
    IN  IF ~is_authenticated
        THEN /\ AuthRedirect("logout_user", request, "login")
             /\ UNCHANGED <<auth_user, browser, outbox>>
        ELSE IF method # "POST"
        THEN AuthNotAllowed("logout_user", request)
        ELSE /\ browser' = EmptySession
             /\ AuthRedirect("logout_user", request, "login")
             /\ UNCHANGED <<auth_user, outbox>>

(***************************************************************************)
(* The requests of one browser to the authentication views, one at a time, *)
(* and the passing of time                                                 *)
(***************************************************************************)
MaxAccounts == 1

MaxMails == 2

MaxOtpPosts == 6

MaxNow == 20

TickMinutes == 10

quiz_vars == <<practice, quiz_sessions, session, settings, call, ret, inflight>>

Caps(s) == [s |-> s, caps |-> TRUE, pad |-> FALSE]

Padded(s) == [s |-> s, caps |-> FALSE, pad |-> TRUE]

StrongPassword == Text("StrongPass123!")

RegisterForm(username, email, password, password2) == [username |-> username, email |-> email, password |-> password, password2 |-> password2]

\* the forms that pass validation while the name and the address are free
ValidRegisterForms ==
    {RegisterForm(Padded("alice"), Text("a@x.org"), StrongPassword, StrongPassword),
     RegisterForm(Caps("alice"), Text("b@x.org"), StrongPassword, StrongPassword),
     RegisterForm(Text("bob"), Caps("a@x.org"), StrongPassword, StrongPassword),
     RegisterForm(Text("bob"), Text("b@x.org"), StrongPassword, StrongPassword)}

\* a blank name, a missing field, differing passwords, a weak password
InvalidRegisterForms ==
    {RegisterForm(Padded(""), Text("a@x.org"), StrongPassword, StrongPassword),
     RegisterForm(Text("alice"), NoText, StrongPassword, StrongPassword),
     RegisterForm(Text("alice"), Text("a@x.org"), NoText, NoText),
     RegisterForm(Text("alice"), Text("a@x.org"), StrongPassword, Text("12345678")),
     RegisterForm(Text("alice"), Text("a@x.org"), Text("12345678"), Text("12345678"))}

RegisterForms == ValidRegisterForms \cup InvalidRegisterForms

NoRegisterForm == RegisterForm(NoText, NoText, NoText, NoText)

\* the numbers random.randint draws
OtpDraws == {7, 123456}

\* the texts entered as OTP: the drawn ones, one with blanks around it, one
\* never drawn, and nothing
EnteredOtps ==
    {OtpText(otp_digits(n)) : n \in OtpDraws}
    \cup {[digits |-> otp_digits(123456), pad |-> TRUE],
          OtpText(otp_digits(0)),
          OtpText(<< >>)}

LoginForm(username, password, next) == [username |-> username, password |-> password, next |-> next]

Credentials ==
    {<<Text("alice"), StrongPassword>>,
     <<Padded("alice"), StrongPassword>>,
     <<Caps("alice"), StrongPassword>>,
     <<Text("alice"), Text("12345678")>>,
     <<Text("bob"), StrongPassword>>,
     <<NoText, StrongPassword>>}

Register ==
    \E method \in {"GET", "POST"} :
        \E form \in (IF method = "POST" THEN RegisterForms ELSE {NoRegisterForm}),
           n \in (IF method = "POST" THEN OtpDraws ELSE {7}),
           mail_ok \in DbOf(method) :
            /\ register_page(method, form, n, mail_ok)
            /\ auth_user'.last_id <= MaxAccounts
            /\ Len(outbox') <= MaxMails
            /\ UNCHANGED <<now, quiz_vars>>

VerifyEmailOtp ==
    \E method \in {"GET", "POST"} :
        \E otp \in (IF method = "POST" THEN EnteredOtps ELSE {OtpText(<< >>)}) :
            /\ verify_email_otp(method, otp)
            /\ Has(browser', REGISTRATION_OTP_SESSION_KEY) =>
                   browser'[REGISTRATION_OTP_SESSION_KEY].attempts <= MaxOtpPosts
            /\ UNCHANGED <<now, quiz_vars>>

ResendEmailOtp ==
    \E method \in {"GET", "POST"} :
        \E n \in (IF method = "POST" THEN OtpDraws ELSE {7}),
           mail_ok \in DbOf(method) :
            /\ resend_email_otp(method, n, mail_ok)
            /\ Len(outbox') <= MaxMails
            /\ UNCHANGED <<now, quiz_vars>>

\* logging in by the name and the password, without a next URL
Login ==
    \E method \in {"GET", "POST"} :
        \E username \in (IF method = "POST" THEN {Text("alice"), Text("bob")}
                         ELSE {NoText}),
           n \in (IF method = "POST" THEN OtpDraws ELSE {7}) :
            /\ login_page(method,
                          LoginForm(username,
                                    IF method = "POST" THEN StrongPassword
                                    ELSE NoText,
                                    NoUrl),
                          NoUrl, FALSE, n, TRUE)
            /\ Len(outbox') <= MaxMails
            /\ UNCHANGED <<now, quiz_vars>>

Logout ==
    \E method \in {"GET", "POST"} :
        /\ logout_user(method)
        /\ UNCHANGED <<now, quiz_vars>>

\* time passes between two requests
Tick ==
    /\ now + TickMinutes <= MaxNow
    /\ now' = now + TickMinutes
    /\ UNCHANGED <<auth_user, browser, outbox, response, quiz_vars>>

NextAuth ==
    \/ Register
    \/ VerifyEmailOtp
    \/ ResendEmailOtp
    \/ Login
    \/ Logout
    \/ Tick

SpecAuth == Init /\ [][NextAuth]_vars

(***************************************************************************)
(* login_page and logout_user on their own, with the next URLs.  The User  *)
(* table holds a verified and an unverified account from the start.        *)
(***************************************************************************)
NextUrls ==
    {NoUrl,
     Url("", "", <<"", "dashboard", "">>),
     Url("", "", <<"", "quiz", "">>),
     Word("quiz"),
     Word("foo"),
     Url("https", "evil.example.com", << >>),
     Url("", "evil.example.com", <<"", "">>),
     Url("http", Host, <<"", "quiz", "">>),
     Url("https", Host, <<"", "quiz", "">>),
     Url("", Host, <<"", "quiz", "">>),
     Url("ftp", Host, <<"", "">>),
     Url("javascript", "", <<"alert(1)">>)}

\* next in the form, in the query string, or in both
NextPairs ==
    {<<next, NoUrl>> : next \in NextUrls}
    \cup {<<NoUrl, next>> : next \in NextUrls}
    \cup {<<Url("https", "evil.example.com", << >>), Url("", "", <<"", "quiz", "">>)>>,
          <<Url("", "", <<"", "quiz", "">>), Url("https", "evil.example.com", << >>)>>}

InitLogin ==
    /\ practice = << >>
    /\ quiz_sessions = << >>
    /\ session = [u \in Users |-> EmptySession]
    /\ response = NoResponse
    /\ settings = [GROQ_API_KEY |-> TRUE, GROQ_MODEL |-> ""]
    /\ call = NoCall
    /\ ret = << >>
    /\ auth_user = [rows |-> {[id |-> 1, username |-> Text("alice"),
                               email |-> Text("a@x.org"),
                               password |-> StrongPassword,
                               is_active |-> TRUE],
                              [id |-> 2, username |-> Text("bob"),
                               email |-> Text("b@x.org"),
                               password |-> StrongPassword,
                               is_active |-> FALSE]},
                    last_id |-> 2]
    /\ browser = EmptySession
    /\ outbox = << >>
    /\ now = 0
    /\ inflight = << >>

LoginPage ==
    \E method \in {"GET", "POST"}, next \in NextPairs, is_secure \in BOOLEAN :
        \E cred \in (IF method = "POST" THEN Credentials ELSE {<<NoText, NoText>>}) :
            /\ login_page(method, LoginForm(cred[1], cred[2], next[1]), next[2],
                          is_secure, 7, TRUE)
            /\ Len(outbox') <= MaxMails
            /\ UNCHANGED <<now, quiz_vars>>

NextLogin ==
    \/ LoginPage
    \/ Logout

SpecLogin == InitLogin /\ [][NextLogin]_vars

(***************************************************************************)
(* Properties                                                              *)
(***************************************************************************)
\* the analysis shown by the last request, if it was one to weak_areas
Shown ==
    IF response.view = "weak_areas" THEN response.context.topic_analysis
    ELSE << >>

\* the rows of the attempt log of a user, and of a user in a topic
RowsOf(user) == {i \in DOMAIN practice : practice[i].user = user}

RowsIn(user, topic) == {i \in RowsOf(user) : practice[i].topic = topic}

\* C1: calculate_weakness_score returns the hundredth nearest to
\* 0.5*(100-accuracy)/100 + 0.3*min(avg_time/120, 1) + 0.2*(100-consistency)/100
\* (written here over 6000*Unit), and for avg_time >= 120 it returns what it
\* returns at avg_time = 120.
C1_ScoreFormula ==
    ret # << >> =>
        LET exact == 30 * (100 * Unit - call.accuracy)
                     + (IF call.avg_time >= 120 * Unit THEN 1800 * Unit
                        ELSE 15 * call.avg_time)
                     + 12 * (100 * Unit - call.consistency)
            d == ret[1] * 60 * Unit - exact
        IN  /\ 2 * d <= 60 * Unit
            /\ -2 * d <= 60 * Unit
            /\ call.avg_time >= 120 * Unit =>
                   ret[1] = calculate_weakness_score(call.accuracy, 120 * Unit,
                                                     call.consistency, call.half)

C1_Witness ==
    /\ ret = <<80>>
    /\ call.accuracy = 0
    /\ call.avg_time = 500 * Unit
    /\ call.consistency = 100 * Unit

\* C3: the score lies in [0, 1] (0..100 hundredths), score(100, 0, 100) = 0.0
\* and score(0, 120, 0) = 1.0.
C3_ScoreRange ==
    ret # << >> =>
        /\ ret[1] >= 0
        /\ ret[1] <= 100
        /\ (call.accuracy = 100 * Unit /\ call.avg_time = 0
            /\ call.consistency = 100 * Unit) => ret[1] = 0
        /\ (call.accuracy = 0 /\ call.avg_time = 120 * Unit
            /\ call.consistency = 0) => ret[1] = 100

C3_Witness ==
    /\ ret = <<100>>
    /\ call.accuracy = 0
    /\ call.avg_time = 120 * Unit
    /\ call.consistency = 0

\* C4: with avg_time and consistency fixed, a higher accuracy never gets a
\* higher score and a lower accuracy never a lower one.
C4_Monotone ==
    ret # << >> =>
        \A a \in ScoreAccuracies, half \in {0, 1} :
            LET other == calculate_weakness_score(a * Unit, call.avg_time,
                                                  call.consistency, half)
            IN  /\ a * Unit > call.accuracy => other <= ret[1]
                /\ a * Unit < call.accuracy => other >= ret[1]

C4_Witness ==
    /\ ret # << >>
    /\ call.accuracy = 40 * Unit
    /\ calculate_weakness_score(41 * Unit, call.avg_time, call.consistency,
                                call.half) < ret[1]

\* C2: every summary has the status and priority of its score: below 0.3
\* Strong/Low, from 0.3 and below 0.6 Moderate/Medium, from 0.6 Weak/High.
C2_StatusThresholds ==
    \A i \in DOMAIN Shown :
        LET e == Shown[i]
        IN  /\ e.weakness_score < 30 => e.status = "Strong" /\ e.priority = "Low"
            /\ (e.weakness_score >= 30 /\ e.weakness_score < 60) =>
                   e.status = "Moderate" /\ e.priority = "Medium"
            /\ e.weakness_score >= 60 => e.status = "Weak" /\ e.priority = "High"
            /\ <<e.status, e.priority>> \in
                   {<<"Strong", "Low">>, <<"Moderate", "Medium">>,
                    <<"Weak", "High">>}

C2_Witness ==
    \E i, j \in DOMAIN Shown :
        /\ Shown[i].weakness_score = 60 /\ Shown[i].status = "Weak"
        /\ Shown[j].weakness_score = 30 /\ Shown[j].status = "Moderate"

\* C5 as stated: a score of exactly 0.3 is Strong and a score of exactly 0.6
\* is Moderate (the boundary belongs to the lower-weakness band).
C5_BoundaryInLowerBand ==
    \A i \in DOMAIN Shown :
        /\ Shown[i].weakness_score = 30 => Shown[i].status = "Strong"
        /\ Shown[i].weakness_score = 60 => Shown[i].status = "Moderate"

\* C5 amended: a score of exactly 0.3 is Moderate and a score of exactly 0.6
\* is Weak (the boundary belongs to the higher-weakness band).
C5_BoundaryInUpperBand ==
    \A i \in DOMAIN Shown :
        /\ Shown[i].weakness_score = 30 => Shown[i].status = "Moderate"
        /\ Shown[i].weakness_score = 60 => Shown[i].status = "Weak"

C5_Witness ==
    /\ Len(Shown) = 1
    /\ Shown[1].weakness_score = 30
    /\ Shown[1].status = "Moderate"
    /\ Shown[1].total_attempts = 3

\* C6: the analysis has exactly one summary per topic of the user's attempts,
\* with the counts of that user's attempts and correct attempts in the topic;
\* the totals add up to the number of the user's attempts.
C6_OnePerTopic ==
    response.view = "weak_areas" =>
        LET u == response.user
        IN  /\ {Shown[i].topic : i \in DOMAIN Shown}
                   = {practice[r].topic : r \in RowsOf(u)}
            /\ Len(Shown) = Cardinality({practice[r].topic : r \in RowsOf(u)})
            /\ \A i \in DOMAIN Shown :
                   /\ Shown[i].total_attempts
                          = Cardinality(RowsIn(u, Shown[i].topic))
                   /\ Shown[i].correct_answers
                          = Cardinality({r \in RowsIn(u, Shown[i].topic) :
                                            practice[r].is_correct})
            /\ SumSeq([i \in DOMAIN Shown |-> Shown[i].total_attempts])
                   = Cardinality(RowsOf(u))

C6_Witness ==
    /\ response.view = "weak_areas"
    /\ response.user = "u1"
    /\ Len(Shown) = 2
    /\ \E r \in RowsOf("u2") : RowsIn("u1", practice[r].topic) # {}
    /\ \E i \in DOMAIN Shown :
           Shown[i].correct_answers = 1 /\ Shown[i].total_attempts = 1

\* C7: the analysis is ordered by weakness_score, weakest topics first.
C7_SortedByWeakness ==
    \A i \in DOMAIN Shown :
        i < Len(Shown) => Shown[i].weakness_score >= Shown[i + 1].weakness_score

C7_Witness ==
    /\ Len(Shown) = 2
    /\ Shown[1].weakness_score > Shown[2].weakness_score
    /\ Shown[1].topic = "Quantitative Aptitude"

\* C8: for a user without attempts the analysis is the empty list and the
\* recommendations have three empty buckets and the start-practicing message;
\* the page is rendered.
C8_EmptyHistory ==
    (response.view \in {"weak_areas", "recommendations"}
     /\ RowsOf(response.user) = {}) =>
        /\ response.kind = "render"
        /\ response.view = "weak_areas" => response.context.topic_analysis = << >>
        /\ response.context.recommendations.high_priority = << >>
        /\ response.context.recommendations.medium_priority = << >>
        /\ response.context.recommendations.maintain = << >>
        /\ response.context.recommendations.message
               = <<"Start practicing to get personalized recommendations!">>

C8_Witness ==
    /\ response.view = "weak_areas"
    /\ response.user = "u2"
    /\ RowsOf("u2") = {}
    /\ RowsOf("u1") # {}
    /\ response.context.topic_analysis = << >>

\* C9: every summary of an analysis of the attempts the quiz flows have
\* written has an accuracy in [0, 100] and a weakness score in [0, 1].
C9_SummaryRanges ==
    \A i \in DOMAIN Shown :
        /\ Shown[i].accuracy >= 0
        /\ Shown[i].accuracy <= 1000
        /\ Shown[i].weakness_score >= 0
        /\ Shown[i].weakness_score <= 100

\* the topics of the summaries with one priority, in list order
TopicsWith(topic_analysis, priority) ==
    LET chosen == SelectSeq(topic_analysis, LAMBDA t : t.priority = priority)
    IN  [i \in DOMAIN chosen |-> chosen[i].topic]

TopicsIn(recommendations) ==
    [i \in DOMAIN recommendations |-> recommendations[i].topic]

\* C10: every topic goes to the bucket of its priority and to no other, in
\* list order; a High topic gets the low-accuracy reason when its accuracy is
\* below 40, else the slowness reason when its avg_time is above 90, else the
\* inconsistency reason.
C10_Buckets ==
    ret # << >> =>
        LET topic_analysis == call.topic_analysis
            high == SelectSeq(topic_analysis, LAMBDA t : t.priority = "High")
        IN  /\ TopicsIn(ret[1].high_priority) = TopicsWith(topic_analysis, "High")
            /\ TopicsIn(ret[1].medium_priority)
                   = TopicsWith(topic_analysis, "Medium")
            /\ TopicsIn(ret[1].maintain) = TopicsWith(topic_analysis, "Low")
            /\ \A i \in DOMAIN high :
                   LET r == ret[1].high_priority[i]
                   IN  IF high[i].accuracy < 400
                       THEN /\ r.reason[1] = "Very low accuracy"
                            /\ r.suggestion[1] = "Start with easy questions"
                       ELSE IF high[i].avg_time > 900
                       THEN /\ r.reason[1] = "Taking too long"
                            /\ r.suggestion[1] = "speed-solving with a timer"
                       ELSE /\ r.reason[1] = "Inconsistent performance"
                            /\ r.suggestion[1] = "Practice regularly"

C10_Witness ==
    /\ ret # << >>
    /\ Len(call.topic_analysis) = 2
    /\ Len(ret[1].high_priority) = 2
    /\ call.topic_analysis[1].accuracy = 350
    /\ call.topic_analysis[1].avg_time = 950
    /\ ret[1].high_priority[1].reason[1] = "Very low accuracy"
    /\ ret[1].high_priority[2].reason[1] = "Inconsistent performance"

\* C11: for a non-empty analysis the message is "Focus on N weak area(s)..."
\* with N the number of high-priority topics when there is one, else "Good
\* progress..." when there is a medium-priority topic, else "Excellent...".
C11_Message ==
    (ret # << >> /\ call.topic_analysis # << >>) =>
        LET high == TopicsWith(call.topic_analysis, "High")
            medium == TopicsWith(call.topic_analysis, "Medium")
        IN  /\ Len(ret[1].high_priority) = Len(high)
            /\ ret[1].message =
                   IF high # << >>
                   THEN <<"Focus on weak area(s) to improve quickly!", Len(high)>>
                   ELSE IF medium # << >>
                   THEN <<"Good progress! Work on moderate areas to reach excellence.">>
                   ELSE <<"Excellent! You're strong in all areas. Keep practicing!">>

C11_Witness ==
    /\ ret # << >>
    /\ Len(call.topic_analysis) = 2
    /\ call.topic_analysis[1].priority = "High"
    /\ call.topic_analysis[2].priority = "Medium"
    /\ ret[1].message = <<"Focus on weak area(s) to improve quickly!", 1>>

\* the models generate_questions tries, and whether the answer to the last
\* provider call gave no question
AIModelList == _get_groq_models(settings.GROQ_MODEL)

LastCallFailed ==
    \/ call.last \in {ApiError, ParseError}
    \/ format_questions(call.last, call.topic, call.difficulty, "",
                        call.num_questions) \in {Raised, << >>}

\* a question taken from the static bank
FromBank(q) ==
    /\ q.source = <<"Static Fallback">>
    /\ \E i \in DOMAIN get_all_questions :
           /\ q.topic = get_all_questions[i].topic
           /\ q.difficulty = get_all_questions[i].difficulty
           /\ q.options = get_all_questions[i].options
           /\ q.correct_answer = get_all_questions[i].correct_answer

\* C12: when there is no client, or every provider call of every model and
\* attempt has failed, generate_questions with fallback returns a non-empty
\* list of questions of the static bank, and without fallback it raises.
C12_Fallback ==
    (/\ ret # << >>
     /\ \/ ~settings.GROQ_API_KEY
        \/ call.model > Len(AIModelList) /\ LastCallFailed) =>
        IF call.allow_fallback
        THEN /\ ret[1] # Raised
             /\ ret[1] # << >>
             /\ Len(ret[1]) <= call.num_questions
             /\ \A i \in DOMAIN ret[1] : FromBank(ret[1][i])
        ELSE ret[1] = Raised

C12_Witness ==
    /\ ret # << >>
    /\ settings.GROQ_API_KEY
    /\ call.calls = 4
    /\ call.last = ParseError
    /\ call.topic = "Graph Theory"
    /\ call.allow_fallback
    /\ Len(ret[1]) = 2
    /\ FromBank(ret[1][1])

\* C13: every question generate_questions returns has 4 options, a
\* correct_answer in 0..3 and the fields topic, difficulty and source; a
\* question of the provider comes from an item with 4 options and an answer
\* index in 0..3.
C13_WellFormed ==
    (ret # << >> /\ ret[1] # Raised) =>
        \A i \in DOMAIN ret[1] :
            LET q == ret[1][i]
            IN  /\ q.options = 4
                /\ q.correct_answer \in {0, 1, 2, 3}
                /\ {"topic", "difficulty", "source"} \subseteq DOMAIN q
                /\ q.source[1] \in {"Groq AI", "Static Fallback"}
                /\ q.source[1] = "Groq AI" =>
                       /\ q.topic = call.topic
                       /\ q.difficulty = call.difficulty
                       /\ call.last[q.id[3]].options = 4
                       /\ call.last[q.id[3]].correct_answer = q.correct_answer

C13_Witness ==
    /\ ret # << >>
    /\ call.last = <<ThreeOptions, OkItem>>
    /\ call.num_questions = 2
    /\ Len(ret[1]) = 1
    /\ ret[1][1].id[3] = 2
    /\ ret[1][1].source[1] = "Groq AI"

\* a well-formed question object of a response
IsValidItem(item) ==
    /\ item.kind = "object"
    /\ item.keys
    /\ item.options = 4
    /\ item.correct_answer \in {0, 1, 2, 3}

\* the positions of the valid items among the first num_questions elements
ValidPositions(items, num_questions) ==
    {i \in 1..Min(num_questions, Len(items)) : IsValidItem(items[i])}

\* C14: a malformed element of a response array (a key missing, options that
\* are not a list of 4, an answer that is not an integer in 0..3, an element
\* that is not an object) is skipped and the attempt returns exactly the
\* valid questions among the first num_questions elements, in their order.
C14_MalformedSkipped ==
    (/\ call.calls > 0
     /\ call.last \notin {NoAnswer, ApiError, ParseError}
     /\ ValidPositions(call.last, call.num_questions) # {}) =>
        /\ ret # << >>
        /\ ret[1] # Raised
        /\ {ret[1][i].id[3] : i \in DOMAIN ret[1]}
               = ValidPositions(call.last, call.num_questions)
        /\ \A i, j \in DOMAIN ret[1] :
               i < j => ret[1][i].id[3] < ret[1][j].id[3]
        /\ \A i \in DOMAIN ret[1] :
               ret[1][i].correct_answer = call.last[ret[1][i].id[3]].correct_answer

\* the question index of a user's static and adaptive quiz, and the count of
\* correct answers, as kept in the session
QuizIndex(s) == Get(s, "current_question", 1)

AdaptiveIndex(s) == Get(s, "adaptive_current_question", 0)

CorrectCount(s) == Get(s, "correct_answers", 0) + Get(s, "adaptive_correct", 0)

\* C15: a request that advances a user's question index, or counts an answer
\* as correct, creates exactly one PracticeActivity record of that user.
C15_RecordPerAnswer ==
    [][\A user \in Users :
          (\/ QuizIndex(session'[user]) > QuizIndex(session[user])
           \/ AdaptiveIndex(session'[user]) > AdaptiveIndex(session[user])
           \/ CorrectCount(session'[user]) > CorrectCount(session[user])) =>
              /\ Len(practice') = Len(practice) + 1
              /\ SubSeq(practice', 1, Len(practice)) = practice
              /\ practice'[Len(practice')].user = user]_vars

\* C18: every stored PracticeActivity record has a non-negative time_taken.
C18_TimeNonNegative ==
    \A i \in DOMAIN practice : practice[i].time_taken >= 0

\* whether the run a user's session holds has every question answered
StaticRunComplete(s) ==
    LET stored == Get(s, "session_questions", << >>)
        all_questions == IF stored = << >> THEN get_all_questions ELSE stored
    IN  /\ Has(s, "quiz_started")
        /\ QuizIndex(s) > Len(all_questions)

AdaptiveRunComplete(s) ==
    LET questions == Get(s, "adaptive_questions", NoneValue)
    IN  /\ questions # NoneValue
        /\ questions # << >>
        /\ AdaptiveIndex(s) >= Len(questions)

\* C19: a summary request creates exactly one QuizSession record when the
\* run of the session, static or adaptive, is complete, and none when not
\* all its questions are answered or the summary was already given.
C19_SessionPerCompletedRun ==
    [][IF response'.view = "quiz_summary" /\ response'.kind = "render"
       THEN IF StaticRunComplete(session[response'.user])
            THEN /\ Len(quiz_sessions') = Len(quiz_sessions) + 1
                 /\ quiz_sessions'[Len(quiz_sessions')].user = response'.user
            ELSE quiz_sessions' = quiz_sessions
       ELSE IF response'.view = "adaptive_quiz_summary"
               /\ response'.kind = "render"
       THEN IF AdaptiveRunComplete(session[response'.user])
            THEN /\ Len(quiz_sessions') = Len(quiz_sessions) + 1
                 /\ quiz_sessions'[Len(quiz_sessions')].user = response'.user
            ELSE quiz_sessions' = quiz_sessions
       ELSE quiz_sessions' = quiz_sessions]_vars

\* C20: every question list kept in session['adaptive_questions'] comes from
\* the AI provider, and a failed generation shows the error page.
C20_OnlyAIQuestions ==
    \A user \in Users :
        LET questions == Get(session[user], "adaptive_questions", NoneValue)
        IN  questions # NoneValue =>
                \A i \in DOMAIN questions : questions[i].source[1] = "Groq AI"

\* the questions of the static quiz a session holds
StaticQuestions(s) ==
    LET stored == Get(s, "session_questions", << >>)
    IN  IF stored = << >> THEN get_all_questions ELSE stored

\* C16: a record created by quiz or adaptive_quiz has is_correct =
\* (selected_option = correct_answer), with the correct_answer (and topic) of
\* the question at the position of the session the answer was given to, the
\* position before the one the session holds after the request.
C16_CorrectnessFlag ==
    [][Len(practice') > Len(practice) =>
          LET row == practice'[Len(practice')]
              s == session'[row.user]
              question == IF response'.view = "quiz"
                          THEN StaticQuestions(s)[QuizIndex(s) - 1]
                          ELSE s.adaptive_questions[AdaptiveIndex(s)]
          IN  /\ response'.view \in {"quiz", "adaptive_quiz"}
              /\ row.user = response'.user
              /\ row.is_correct = (row.selected_option = row.correct_answer)
              /\ row.is_correct = response'.context.is_correct
              /\ row.correct_answer = question.correct_answer
              /\ row.topic = question.topic]_vars

C16_Witness ==
    /\ response.view = "adaptive_quiz"
    /\ response.kind = "render"
    /\ response.context.submitted
    /\ response.context.current_question_num = 2
    /\ Len(practice) = 1
    /\ practice[1].is_correct
    /\ practice[1].selected_option = 1
    /\ practice[1].question_id = question_hash(<<"ai", "Logical Reasoning", 2>>)

\* C17: no request changes or removes a record of the attempt log: the log
\* after a step is the log before it, with at most records added at the end,
\* and only quiz and adaptive_quiz add one.
C17_AppendOnly ==
    [][/\ Len(practice') >= Len(practice)
       /\ SubSeq(practice', 1, Len(practice)) = practice
       /\ response'.view \notin {"quiz", "adaptive_quiz"} =>
              practice' = practice]_vars

C17_Witness ==
    /\ response.view = "quiz_summary"
    /\ Len(quiz_sessions) = 1
    /\ Len(practice) = 1
    /\ practice[1].user = response.user
    /\ Get(session[response.user], "answers", <<0>>) = << >>

\* the row of the User table with this id is there and inactive / active
Inactive(table, id) == \E u \in table.rows : u.id = id /\ ~u.is_active

Active(table, id) == \E u \in table.rows : u.id = id /\ u.is_active

UserIds == 1..(MaxAccounts + 1)

\* the step is a request to this view (every request sets the response, the
\* passing of time moves the clock)
RequestTo(view) == response'.view = view /\ now' = now

\* the step is a POST to verify_email_otp of the OTP the session holds
PostsStoredOtp ==
    /\ RequestTo("verify_email_otp")
    /\ response'.request.method = "POST"
    /\ Has(browser, REGISTRATION_OTP_SESSION_KEY)
    /\ strip(response'.request.otp) =
           OtpText(browser[REGISTRATION_OTP_SESSION_KEY].otp)

\* C21 as stated: is_active changes from False to True only by a POST to
\* verify_email_otp of the OTP stored in the session for that user,
\* submitted before the expiry time and within the first 5 attempts on that
\* OTP.
C21_ActivationBeforeExpiry ==
    [][\A id \in UserIds :
          Inactive(auth_user, id) /\ Active(auth_user', id) =>
              /\ PostsStoredOtp
              /\ browser[REGISTRATION_OTP_SESSION_KEY].user_id = id
              /\ now < browser[REGISTRATION_OTP_SESSION_KEY].expires_at
              /\ browser[REGISTRATION_OTP_SESSION_KEY].attempts < OtpAttempts]_vars

\* C21 amended: the same, with a submission not later than the expiry time
\* (the instant of expiry included).
C21_ActivationOnlyByValidOtp ==
    [][\A id \in UserIds :
          Inactive(auth_user, id) /\ Active(auth_user', id) =>
              /\ PostsStoredOtp
              /\ browser[REGISTRATION_OTP_SESSION_KEY].user_id = id
              /\ now <= browser[REGISTRATION_OTP_SESSION_KEY].expires_at
              /\ browser[REGISTRATION_OTP_SESSION_KEY].attempts < OtpAttempts]_vars

\* a user was activated by an OTP entered at the instant of its expiry,
\* after a refused entry
C21_Witness ==
    /\ response.view = "verify_email_otp"
    /\ response.kind = "redirect"
    /\ response.to = "login"
    /\ now = OtpMinutes
    /\ Active(auth_user, 1)
    /\ outbox = <<[to |-> Text("a@x.org")]>>

\* the step posts the stored OTP of a user of the table before its expiry
\* and within the attempt limit
ValidOtpPost ==
    /\ PostsStoredOtp
    /\ \E u \in auth_user.rows :
           u.id = browser[REGISTRATION_OTP_SESSION_KEY].user_id
    /\ now < browser[REGISTRATION_OTP_SESSION_KEY].expires_at
    /\ browser[REGISTRATION_OTP_SESSION_KEY].attempts < OtpAttempts

\* C22: a POST to verify_email_otp of the OTP stored in the session, before
\* its expiry and within the attempt limit, makes the OTP's user active,
\* removes registration_otp from the session and redirects to login.
C22_CorrectOtpActivates ==
    [][ValidOtpPost =>
          /\ Active(auth_user', browser[REGISTRATION_OTP_SESSION_KEY].user_id)
          /\ ~Has(browser', REGISTRATION_OTP_SESSION_KEY)
          /\ response'.kind = "redirect"
          /\ response'.to = "login"]_vars

\* the registered user is verified and the OTP is gone from the session
C22_Witness ==
    /\ response.view = "verify_email_otp"
    /\ response.kind = "redirect"
    /\ response.to = "login"
    /\ response.request.otp.pad
    /\ Active(auth_user, 1)
    /\ ~Has(browser, REGISTRATION_OTP_SESSION_KEY)
    /\ Len(outbox) = 1

\* a registration form fails validation against the User table
FailsValidation(form, table) ==
    \/ ~nonempty(strip(form.username))
    \/ ~nonempty(strip(form.email))
    \/ ~nonempty(form.password)
    \/ ~nonempty(form.password2)
    \/ form.password # form.password2
    \/ \E u \in table.rows : lower(u.username) = lower(strip(form.username))
    \/ \E u \in table.rows : lower(u.email) = lower(strip(form.email))
    \/ form.password \in WeakPasswords

\* the step is a registration POST of a form that passes validation
ValidRegistration ==
    /\ RequestTo("register_page")
    /\ response'.request.method = "POST"
    /\ ~FailsValidation(response'.request.form, auth_user)

\* what a registration leaves: one new inactive user, the OTP in the
\* session, one mail to the user, the redirect
Registered ==
    /\ \E u \in auth_user'.rows :
          /\ auth_user'.rows = auth_user.rows \cup {u}
          /\ u \notin auth_user.rows
          /\ ~u.is_active
          /\ u.username = strip(response'.request.form.username)
          /\ outbox' = Append(outbox, [to |-> u.email])
          /\ Has(browser', REGISTRATION_OTP_SESSION_KEY)
          /\ LET otp_data == browser'[REGISTRATION_OTP_SESSION_KEY]
             IN  /\ otp_data.user_id = u.id
                 /\ Len(otp_data.otp) = OtpLength
                 /\ \A i \in 1..OtpLength : otp_data.otp[i] \in 0..9
                 /\ otp_data.attempts = 0
                 /\ otp_data.expires_at = now + OtpMinutes
    /\ response'.kind = "redirect"
    /\ response'.to = "verify_email_otp"

\* a user becomes active only in a successful OTP verification
ActiveOnlyByVerification ==
    \A id \in UserIds :
        ~Active(auth_user, id) /\ Active(auth_user', id) =>
            /\ RequestTo("verify_email_otp")
            /\ response'.kind = "redirect"
            /\ response'.to = "login"

InvalidRegistration ==
    /\ RequestTo("register_page")
    /\ response'.request.method = "POST"
    /\ FailsValidation(response'.request.form, auth_user)

\* C24: a registration POST that fails validation creates no user, stores
\* no OTP in the session and sends no mail.
C24_InvalidRegistration ==
    [][InvalidRegistration =>
          /\ auth_user' = auth_user
          /\ browser' = browser
          /\ outbox' = outbox
          /\ response'.kind \in {"render", "redirect"}
          /\ response'.kind = "redirect" => response'.to = "dashboard"]_vars

\* a name that differs only by case from a registered one was refused
C24_Witness ==
    /\ response.view = "register_page"
    /\ response.kind = "render"
    /\ response.request.method = "POST"
    /\ response.request.form.username = Caps("alice")
    /\ \E u \in auth_user.rows : u.username = Text("alice")
    /\ Cardinality(auth_user.rows) = 1

\* the next URL a login request supplies
SuppliedNext(request) ==
    IF request.form.next # NoUrl THEN request.form.next ELSE request.query

\* the URL is on the request's own host with an allowed scheme: a path on
\* this host, or this host by http or https (by https only, when the
\* request came by https)
OnOwnHost(url, is_secure) ==
    /\ url # NoUrl
    /\ url.netloc \in {"", Host}
    /\ url.scheme \in {"", "https"} \cup (IF is_secure THEN {} ELSE {"http"})

DashboardUrl == Url("", "", UrlPatterns.dashboard)

\* C25: when login_page redirects a client that is authenticated (by this
\* request or before it), it redirects to the supplied next URL only when
\* that URL is on the request's own host with an allowed scheme; for every
\* other next value, and without one, it redirects to the dashboard.
C25_SafeNext ==
    response.view = "login_page" /\ response.kind = "redirect" /\ is_authenticated =>
        LET next == SuppliedNext(response.request)
            is_secure == response.request.is_secure
        IN  /\ response.to = next => OnOwnHost(next, is_secure)
            /\ ~OnOwnHost(next, is_secure) => response.to = DashboardUrl
            /\ response.to.netloc \in {"", Host}

\* a login with an external next URL went to the dashboard
C25_Witness ==
    /\ response.view = "login_page"
    /\ response.kind = "redirect"
    /\ response.request.method = "POST"
    /\ response.request.form.next = Url("https", "evil.example.com", << >>)
    /\ response.to = DashboardUrl
    /\ is_authenticated

\* C26: a GET to logout leaves the session as it is, and answers a logged-in
\* user with status 405; a POST by a logged-in user ends the authenticated
\* session and redirects to login.
C26_LogoutOnlyByPost ==
    [][RequestTo("logout_user") =>
          IF response'.request.method = "GET"
          THEN /\ browser' = browser
               /\ is_authenticated => response'.status = 405 /\ is_authenticated'
          ELSE is_authenticated =>
                   /\ ~is_authenticated'
                   /\ ~Has(browser', SESSION_KEY)
                   /\ response'.kind = "redirect"
                   /\ response'.to = "login"]_vars

\* a logged-in user got 405 for a GET and is still logged in
C26_Witness ==
    /\ response.view = "logout_user"
    /\ response.request.method = "GET"
    /\ response.status = 405
    /\ is_authenticated

\* the rows of a user in a topic that are among the RecentWindow most recent
\* ones of that user in that topic
RecentIn(user, topic) ==
    {i \in RowsIn(user, topic) :
        Cardinality({j \in RowsIn(user, topic) : j > i}) < RecentWindow}

CorrectIn(rowset) == Cardinality({i \in rowset : practice[i].is_correct})

\* a consistency shown in tenths of a percent is max(0, 100 - 100*s) up to
\* the last shown digit, where s*s = num / den: with d = 1000 - consistency,
\* (d - 1)^2 <= 10^6 * num / den <= (d + 1)^2
ShowsDeviation(consistency, num, den) ==
    LET d == 1000 - consistency
    IN  /\ consistency >= 0
        /\ (IF d > 0 THEN (d - 1) * (d - 1) * den ELSE 0) <= 1000 * 1000 * num
        /\ 1000 * 1000 * num <= (d + 1) * (d + 1) * den

\* C27 as stated: for a topic with at least 2 attempts the consistency is
\* max(0, 100 - 100*s) with s the POPULATION standard deviation of the
\* correctness flags of the topic's 5 most recent attempts:
\* s*s = k*(n - k) / (n*n) for k correct ones among n flags.
C27_PopulationDeviation ==
    \A i \in DOMAIN Shown :
        Shown[i].total_attempts >= 2 =>
            LET recent == RecentIn(response.user, Shown[i].topic)
                n == Cardinality(recent)
                k == CorrectIn(recent)
            IN  ShowsDeviation(Shown[i].consistency, k * (n - k), n * n)

\* C27 amended: the same with s the SAMPLE standard deviation,
\* s*s = k*(n - k) / (n*(n - 1)).
C27_SampleDeviation ==
    \A i \in DOMAIN Shown :
        Shown[i].total_attempts >= 2 =>
            LET recent == RecentIn(response.user, Shown[i].topic)
                n == Cardinality(recent)
                k == CorrectIn(recent)
            IN  ShowsDeviation(Shown[i].consistency, k * (n - k), n * (n - 1))

\* six attempts, the oldest one wrong and the fifth wrong: the consistency
\* is that of the flags 1,1,1,0,1
C27_Witness ==
    /\ response.view = "weak_areas"
    /\ response.user = "u1"
    /\ Len(Shown) = 1
    /\ Shown[1].total_attempts = 6
    /\ Shown[1].correct_answers = 4
    /\ ~practice[1].is_correct
    /\ Shown[1].consistency = 553

\* C28: a topic with exactly one attempt has the default consistency 50 (not
\* the 100 of a zero deviation); with 2 or more attempts the consistency is
\* the computed one, 100 for equal flags included.
C28_SingleAttemptDefault ==
    \A i \in DOMAIN Shown :
        LET recent == RecentIn(response.user, Shown[i].topic)
            n == Cardinality(recent)
            k == CorrectIn(recent)
        IN  IF Shown[i].total_attempts = 1
            THEN Shown[i].consistency = 10 * DefaultConsistency
            ELSE /\ ShowsDeviation(Shown[i].consistency, k * (n - k), n * (n - 1))
                 /\ k \in {0, n} => Shown[i].consistency = 1000

\* one attempt in one topic and 50, next to a topic with equal flags and 100
C28_Witness ==
    /\ response.view = "weak_areas"
    /\ response.user = "u1"
    /\ Len(Shown) = 2
    /\ \E i, j \in DOMAIN Shown :
          /\ Shown[i].total_attempts = 1
          /\ Shown[i].consistency = 500
          /\ Shown[j].total_attempts = 2
          /\ Shown[j].consistency = 1000

\* the consistencies get_topic_statistics can report for a topic of a user
ConsistenciesOf(rows, user, topic) ==
    {t.consistency : t \in topic_summaries(practice_data(rows, user), topic)}

Flipped(rows, i) ==
    [rows EXCEPT ![i] = StatRow(@.user, @.topic, IF @.is_correct THEN 0 ELSE 1,
                                @.time_taken)]

\* the logs that differ from the attempt log in the correctness of an older
\* attempt of the topic, in an attempt of another topic or another user, or
\* by one more such attempt
FrameVariations(user, topic) ==
    {Flipped(practice, i) :
        i \in (DOMAIN practice) \ RecentIn(user, topic)}
    \cup {InsertAt(practice, p, x) :
             p \in 0..Len(practice),
             x \in {r \in FlagRows \cup ForeignRows :
                       r.user # user \/ r.topic # topic}}

\* C29: the consistency of a topic is the same for every log that differs
\* only in older attempts of the topic or in attempts of another topic or
\* another user.
C29_ConsistencyFrame ==
    \A i \in DOMAIN Shown :
        \A rows \in FrameVariations(response.user, Shown[i].topic) :
            /\ Shown[i].consistency
                   \in ConsistenciesOf(rows, response.user, Shown[i].topic)
            /\ ConsistenciesOf(rows, response.user, Shown[i].topic)
                   = ConsistenciesOf(practice, response.user, Shown[i].topic)

\* the oldest of six attempts is wrong, the five recent ones are right, an
\* attempt of another user lies between them: the consistency is 100
C29_Witness ==
    /\ response.view = "weak_areas"
    /\ response.user = "u1"
    /\ Len(practice) = MaxFlags + 1
    /\ ~practice[1].is_correct
    /\ \E r \in DOMAIN practice : practice[r].user = "u2"
    /\ Len(Shown) = 1
    /\ Shown[1].total_attempts = 6
    /\ Shown[1].consistency = 1000

\* the configured model first, then the defaults in their order, no model
\* twice
CandidateOrder(models) ==
    /\ settings.GROQ_MODEL # "" => models[1] = settings.GROQ_MODEL
    /\ \A i, j \in DOMAIN models : i # j => models[i] # models[j]
    /\ {models[i] : i \in DOMAIN models}
           = {DefaultModels[i] : i \in DOMAIN DefaultModels}
                 \cup ({settings.GROQ_MODEL} \ {""})
    /\ \A i, j \in DOMAIN models :
           (/\ i < j
            /\ models[i] # settings.GROQ_MODEL
            /\ models[j] # settings.GROQ_MODEL) =>
               \E k, l \in DOMAIN DefaultModels :
                   k < l /\ models[i] = DefaultModels[k]
                         /\ models[j] = DefaultModels[l]

\* the model of the provider call made last: two calls per model, in order
ModelOfLastCall == AIModelList[((call.calls - 1) \div 2) + 1]

\* where the loops stand after call.calls provider calls, and what was
\* returned: the questions of the last call's model when that call
\* succeeded, else the fallback or Raised after all the calls
RetryState ==
    /\ CandidateOrder(AIModelList)
    /\ call.calls <= 2 * Len(AIModelList)
    /\ call.model = (call.calls \div 2) + 1
    /\ call.attempt = (call.calls % 2) + 1
    /\ (ret # << >> /\ settings.GROQ_API_KEY) =>
           IF LastCallFailed
           THEN /\ call.calls = 2 * Len(AIModelList)
                /\ IF call.allow_fallback
                   THEN /\ ret[1] # Raised
                        /\ \A i \in DOMAIN ret[1] : FromBank(ret[1][i])
                   ELSE ret[1] = Raised
           ELSE /\ call.calls > 0
                /\ ret[1] # Raised
                /\ ret[1] # << >>
                /\ \A i \in DOMAIN ret[1] :
                       ret[1][i].source = <<"Groq AI", ModelOfLastCall>>

\* a provider call is made only while nothing is returned; it returns
\* exactly when it yields a question; nothing follows a return
RetryStep ==
    /\ ret # << >> => (call' = call /\ ret' = ret)
    /\ call'.calls # call.calls =>
           /\ call'.calls = call.calls + 1
           /\ settings.GROQ_API_KEY
           /\ LastCallFailed' <=> (ret' = << >>)
    /\ (ret = << >> /\ ret' # << >> /\ call'.calls = call.calls) =>
           \/ ~settings.GROQ_API_KEY
           \/ call.calls = 2 * Len(AIModelList) /\ LastCallFailed

Returned == ret # << >>

\* C31 as stated: one invocation makes at most 3 provider calls, whatever
\* model is configured, and ends by returning a question list or raising.
C31_AtMostThreeCalls == [](call.calls <= 3) /\ <>Returned

\* the provider calls of one invocation: two for each candidate model, so
\* 4 with the default models alone and 6 with another model configured
CallsBounded ==
    /\ call.calls <= 2 * Len(AIModelList)
    /\ Len(AIModelList) \in {2, 3}
    /\ Len(AIModelList) = 3 <=>
           /\ settings.GROQ_MODEL # ""
           /\ \A i \in DOMAIN DefaultModels :
                  DefaultModels[i] # settings.GROQ_MODEL

\* C31 (amended): one invocation of generate_questions makes at most two
\* provider calls for each candidate model, 4 calls with the two default
\* models and 6 when a third model is configured, and it always ends by
\* returning a question list or raising.
C31_BoundedRetries == []CallsBounded /\ <>Returned

C31_Witness ==
    /\ settings.GROQ_MODEL = "mixtral-8x7b-32768"
    /\ call.calls = 6
    /\ LastCallFailed
    /\ Returned
    /\ ret[1] = Raised

\* the topic generate_questions was called with: a question of the provider
\* carries it as its topic, one of the static bank in its id
RequestedTopic(questions) ==
    IF questions[1].source[1] = "Groq AI" THEN questions[1].topic
    ELSE questions[1].id[2]

\* the questions were requested for this topic at this difficulty (a
\* question of the static bank keeps the difficulty of the bank)
RequestedAs(questions, topic, difficulty) ==
    /\ RequestedTopic(questions) = topic
    /\ \A i \in DOMAIN questions :
           questions[i].source[1] = "Groq AI" =>
               /\ questions[i].topic = topic
               /\ questions[i].difficulty = difficulty

\* Easy below 40, Medium below 70, Hard from 70 on (accuracy in tenths)
DifficultyFor(accuracy) ==
    IF accuracy < 400 THEN "Easy"
    ELSE IF accuracy < 700 THEN "Medium"
    ELSE "Hard"

\* topic and difficulty are the choice of the weakness scorer for the log
ChosenByScorer(questions, rows, user) ==
    \E topic_stats \in get_topic_statistics(rows, user) :
        IF topic_stats = << >>
        THEN RequestedAs(questions, "Logical Reasoning", "Easy")
        ELSE IF \A i \in DOMAIN topic_stats :
                    topic_stats[i].status \notin {"Weak", "Moderate"}
        THEN RequestedAs(questions, topic_stats[1].topic, "Medium")
        ELSE \E i \in DOMAIN topic_stats :
                 /\ \A j \in DOMAIN topic_stats :
                        topic_stats[j].weakness_score
                            <= topic_stats[i].weakness_score
                 /\ RequestedAs(questions, topic_stats[i].topic,
                                DifficultyFor(topic_stats[i].accuracy))

\* C32 as stated: the questions of every adaptive quiz that was started
\* have the topic and the difficulty the weakness scorer chooses for the
\* user's attempts.
C32_ChosenByScorer ==
    \A user \in Clients :
        Has(session[user], "adaptive_questions") =>
            ChosenByScorer(session[user].adaptive_questions, practice, user)

\* a GET that generates questions: none are stored, or ?new or ?topic is given
StartsQuiz(user, topic_param, new) ==
    /\ adaptive_quiz(user, "GET", topic_param, new, NoForm, TRUE)
    /\ \/ ~Has(session[user], "adaptive_questions")
       \/ new
       \/ topic_param # ""
    /\ Has(session'[user], "adaptive_questions")

\* C32 (amended): an adaptive quiz started without a topic parameter gets
\* the topic and difficulty the weakness scorer chooses ('Logical
\* Reasoning' at Easy with no attempts; the first topic of the analysis at
\* Medium when no topic is Weak or Moderate; else the topic of the highest
\* weakness score at Easy, Medium or Hard by its accuracy); one started with
\* ?topic= gets that topic at Easy.
C32_ChosenUnlessTopicGiven ==
    [][\A user \in Clients, topic_param \in TopicParams, new \in BOOLEAN :
         StartsQuiz(user, topic_param, new) =>
             IF topic_param # ""
             THEN RequestedAs(session'[user].adaptive_questions,
                              topic_param, "Easy")
             ELSE ChosenByScorer(session'[user].adaptive_questions,
                                 practice, user)]_vars

C32_Witness ==
    /\ Len(practice) = 2
    /\ practice[1].topic = "Logical Reasoning"
    /\ practice[1].is_correct
    /\ practice[1].time_taken = 200
    /\ practice[2].topic = "Quantitative Aptitude"
    /\ practice[2].is_correct
    /\ practice[2].time_taken = 0
    /\ Has(session["u1"], "adaptive_questions")
    /\ session["u1"].adaptive_questions[1].source[1] = "Groq AI"
    /\ session["u1"].adaptive_questions[1].topic = "Logical Reasoning"
    /\ session["u1"].adaptive_questions[1].difficulty = "Hard"

\* the questions of the run of a session: the shuffled ones it stores,
\* the bank when it stores none
QuestionsOf(s) ==
    IF Has(s, "session_questions") THEN s.session_questions
    ELSE get_all_questions

\* the progress a session of the static quiz keeps
QuizProgress(s) ==
    /\ s.correct_answers
           = Cardinality({i \in DOMAIN s.answers : s.answers[i].is_correct})
    /\ Len(s.answers) = s.current_question - 1
    /\ s.correct_answers <= Len(s.answers)
    /\ Len(s.answers) <= Len(QuestionsOf(s))

\* a POST to quiz with a field that int() rejects (the only requests that
\* end in an error when the inserts succeed) changes nothing
RejectedPostKeeps ==
    (response'.view = "quiz" /\ response'.kind = "error") =>
        /\ session' = session
        /\ practice' = practice

\* C33: after any sequence of requests of one session to the static quiz
\* and its summary, correct_answers is the number of stored answers that
\* are correct, len(answers) = current_question - 1 and correct_answers <=
\* len(answers) <= number of questions; a POST with a non-integer field
\* changes neither the session nor the attempt log.
C33_QuizProgress ==
    /\ [](\A user \in Clients :
              Has(session[user], "quiz_started") => QuizProgress(session[user]))
    /\ [][RejectedPostKeeps]_vars

C33_Witness ==
    /\ response.view = "quiz"
    /\ response.kind = "error"
    /\ Has(session["u1"], "quiz_started")
    /\ session["u1"].current_question = 2
    /\ session["u1"].correct_answers = 1
    /\ Len(session["u1"].answers) = 1
    /\ Len(practice) = 1

\* every question of the static run of the session is answered
StaticDone(s) ==
    /\ Has(s, "quiz_started")
    /\ s.current_question > Len(QuestionsOf(s))

\* the session holds the questions of an adaptive run
HasAdaptiveRun(s) ==
    /\ Has(s, "adaptive_questions")
    /\ s.adaptive_questions # NoneValue

\* every question of the adaptive run of the session is answered
AdaptiveDone(s) ==
    /\ HasAdaptiveRun(s)
    /\ s.adaptive_current_question >= Len(s.adaptive_questions)

\* the index stays within the run, and the quiz redirects to the summary
\* exactly when N answers have been given
RunWithinBounds ==
    \A user \in Clients :
        LET s == session[user]
        IN  /\ Has(s, "quiz_started") =>
                   /\ s.current_question <= Len(QuestionsOf(s)) + 1
                   /\ StaticDone(s) <=> Len(s.answers) = Len(QuestionsOf(s))
            /\ HasAdaptiveRun(s) =>
                   s.adaptive_current_question <= Len(s.adaptive_questions)
            /\ (/\ response.view = "quiz"
                 /\ response.user = user
                 /\ response.kind = "redirect") => StaticDone(s)
            /\ (/\ response.view = "adaptive_quiz"
                 /\ response.user = user
                 /\ response.kind = "redirect") => AdaptiveDone(s)

\* the response to an answer that was taken
AcceptedPost(view) ==
    /\ response'.view = view
    /\ response'.kind = "render"
    /\ response'.context.submitted

\* an answer moves the index from the question it answers to the next one:
\* the question the session stood at, or the first of a run the request
\* started
AdvancesByOne ==
    \A user \in Clients :
        /\ (AcceptedPost("quiz") /\ response'.user = user) =>
               /\ session'[user].current_question
                      = response'.context.current_question_num + 1
               /\ \/ response'.context.current_question_num = 1
                  \/ /\ Has(session[user], "current_question")
                     /\ response'.context.current_question_num
                            = session[user].current_question
        /\ (AcceptedPost("adaptive_quiz") /\ response'.user = user) =>
               /\ session'[user].adaptive_current_question
                      = response'.context.current_question_num
               /\ \/ response'.context.current_question_num = 1
                  \/ /\ Has(session[user], "adaptive_current_question")
                     /\ response'.context.current_question_num
                            = session[user].adaptive_current_question + 1

\* a request that starts no new run, to a run that is complete
RequestAfterStaticRun(user) ==
    /\ StaticDone(session[user])
    /\ \E method \in {"GET", "POST"}, form \in RunForms :
           quiz(user, method, FALSE, form, TRUE)

RequestAfterAdaptiveRun(user) ==
    /\ AdaptiveDone(session[user])
    /\ \E method \in {"GET", "POST"}, form \in RunForms, db_ok \in BOOLEAN :
           adaptive_quiz(user, method, "", FALSE, form, db_ok)

\* once the run is complete a request that starts no new run is redirected
\* to the summary and leaves the log and the session as they are
RedirectsAfterRun ==
    \A user \in Clients :
        /\ RequestAfterStaticRun(user) =>
               /\ response'.kind = "redirect"
               /\ response'.to = "quiz_summary"
               /\ practice' = practice
               /\ session' = session
        /\ RequestAfterAdaptiveRun(user) =>
               /\ response'.kind = "redirect"
               /\ response'.to = "adaptive_quiz_summary"
               /\ practice' = practice
               /\ session' = session

\* C34: a run of N questions is complete after exactly N answers: an
\* accepted POST advances the index by one, the index stays at most N + 1
\* (static) or N (adaptive), and once all N are answered every request to
\* quiz or adaptive_quiz that starts no new run, a POST included, is
\* redirected to the summary and creates no PracticeActivity.
C34_RunCompletes ==
    /\ []RunWithinBounds
    /\ [][AdvancesByOne /\ RedirectsAfterRun]_vars

C34_Witness ==
    /\ response.view = "adaptive_quiz"
    /\ response.kind = "redirect"
    /\ AdaptiveDone(session["u1"])
    /\ Len(session["u1"].adaptive_questions) = 2
    /\ session["u1"].adaptive_questions[1].source[1] = "Groq AI"
    /\ Len(practice) = 2

\* C35: also when two answers of a session were handled at the same time,
\* once they are done the run has at most one PracticeActivity for each
\* question position passed, every answer recorded is among the session's
\* answers, every correct one is counted in correct_answers, and
\* len(answers) = current_question - 1.
C35_ConcurrentAnswers ==
    \A user \in Clients :
        (inflight = << >> /\ Has(session[user], "quiz_started")) =>
            LET s == session[user]
                mine == SelectSeq(practice, LAMBDA r : r.user = user)
            IN  /\ Len(mine) <= s.current_question - 1
                /\ Len(s.answers) = Len(mine)
                /\ s.correct_answers
                       = Len(SelectSeq(mine, LAMBDA r : r.is_correct))
                /\ Len(s.answers) = s.current_question - 1

\* the OTP the session holds, if any
OtpState ==
    IF Has(browser, REGISTRATION_OTP_SESSION_KEY)
    THEN <<browser[REGISTRATION_OTP_SESSION_KEY]>>
    ELSE << >>

\* the session holds the OTP of a user who is not yet verified
PendingOtp ==
    /\ Has(browser, REGISTRATION_OTP_SESSION_KEY)
    /\ \E u \in auth_user.rows :
           u.id = browser[REGISTRATION_OTP_SESSION_KEY].user_id /\ ~u.is_active

\* a request during which send_mail raises
FailedRegister ==
    \E form \in RegisterForms, n \in OtpDraws :
        register_page("POST", form, n, FALSE)

FailedResend ==
    /\ PendingOtp
    /\ \E n \in OtpDraws : resend_email_otp("POST", n, FALSE)

FailedLogin ==
    \E username \in {Text("alice"), Text("bob")}, n \in OtpDraws :
        login_page("POST", LoginForm(username, StrongPassword, NoUrl), NoUrl,
                   FALSE, n, FALSE)

\* C36: a request whose OTP mail cannot be sent leaves no trace: after a
\* failed registration the user is gone, so that name and address can be
\* registered again, and after a failed registration, login of an
\* unverified user or resend the session holds the OTP state it held before
\* the request and no mail was sent.
C36_FailedMailLeavesNoTrace ==
    [][(FailedRegister \/ FailedResend \/ FailedLogin) =>
           /\ auth_user'.rows = auth_user.rows
           /\ OtpState' = OtpState
           /\ outbox' = outbox]_vars

(***************************************************************************)
(* login_page with a verified and an unverified account, right and wrong   *)
(* passwords, a mail that is sent or fails, and the OTP verification.      *)
(***************************************************************************)
UnverifiedCredentials ==
    {<<Text("alice"), StrongPassword>>,
     <<Text("bob"), StrongPassword>>,
     <<Caps("bob"), StrongPassword>>,
     <<Text("bob"), Text("12345678")>>}

UnverifiedLogin ==
    \E method \in {"GET", "POST"} :
        \E cred \in (IF method = "POST" THEN UnverifiedCredentials
                     ELSE {<<NoText, NoText>>}),
           n \in (IF method = "POST" THEN OtpDraws ELSE {7}),
           mail_ok \in DbOf(method) :
            /\ login_page(method, LoginForm(cred[1], cred[2], NoUrl), NoUrl,
                          FALSE, n, mail_ok)
            /\ Len(outbox') <= MaxMails
            /\ UNCHANGED <<now, quiz_vars>>

NextUnverified ==
    \/ UnverifiedLogin
    \/ VerifyEmailOtp
    \/ Logout

SpecUnverified == InitLogin /\ [][NextUnverified]_vars

\* the users of that name who are not verified
Unverified(username) ==
    {u \in auth_user.rows : iexact(u.username, strip(username)) /\ ~u.is_active}

\* the session the request leaves holds a new OTP of the user
FreshOtpFor(u) ==
    /\ Has(browser', REGISTRATION_OTP_SESSION_KEY)
    /\ browser'[REGISTRATION_OTP_SESSION_KEY].user_id = u.id
    /\ browser'[REGISTRATION_OTP_SESSION_KEY].attempts = 0
    /\ browser'[REGISTRATION_OTP_SESSION_KEY].expires_at = now + OtpMinutes
    /\ \E n \in OtpDraws :
           browser'[REGISTRATION_OTP_SESSION_KEY].otp = otp_digits(n)

RedirectsToVerify ==
    /\ response'.kind = "redirect"
    /\ response'.to = Url("", "", <<"", "verify-otp", "">>)

ShowsLoginError(error) ==
    /\ response'.kind = "render"
    /\ response'.template = "login.html"
    /\ response'.error = error

\* the session is authenticated only for an active user
SessionUserActive ==
    Has(browser, SESSION_KEY) => Active(auth_user, browser[SESSION_KEY])

\* the step is a POST of a name and a password to login_page
PostsCredentials ==
    /\ RequestTo("login_page")
    /\ response'.request.method = "POST"
    /\ nonempty(response'.request.form.password)

C38_ExtremesNotMisclassified ==
    response.view = "weak_areas" =>
        \A i \in DOMAIN Shown :
            LET attempts == RowsIn(response.user, Shown[i].topic)
            IN  /\ (\A r \in attempts : practice[r].is_correct) =>
                       /\ Shown[i].weakness_score <= 40
                       /\ Shown[i].status # "Weak"
                /\ (\A r \in attempts : ~practice[r].is_correct) =>
                       /\ Shown[i].weakness_score >= 50
                       /\ Shown[i].status # "Strong"

\* one slow correct attempt in a topic (score 0.4) beside two fast wrong
\* attempts in the other (score 0.5)
C38_Witness ==
    /\ response.view = "weak_areas"
    /\ Len(Shown) = 2
    /\ \E i, j \in DOMAIN Shown :
           /\ \A r \in RowsIn(response.user, Shown[i].topic) :
                  practice[r].is_correct /\ practice[r].time_taken > TimeCap
           /\ Shown[i].total_attempts = 1
           /\ Shown[i].weakness_score = 40
           /\ \A r \in RowsIn(response.user, Shown[j].topic) :
                  ~practice[r].is_correct /\ practice[r].time_taken = 0
           /\ Shown[j].total_attempts = 2
           /\ Shown[j].weakness_score = 50

====
